---------------------------- MODULE Spec2Model ----------------------------
(***************************************************************************)
(* Motion-segmentation and tension-scoring engine of HimAI-v2              *)
(* (backend/tension_detector).                                             *)
(*                                                                         *)
(* Units.  The Python code computes on floats; the model is exact          *)
(* fixed-point arithmetic:                                                 *)
(*   speeds      in 1/1000 unit per second   (0.05  -> 50)                 *)
(*   positions   in 1/1000 unit              (0.005 -> 5)                  *)
(*   times       in milliseconds             (0.6 s -> 600)                *)
(* Quotients that are not integers (means, scores) are exact rationals     *)
(* [num, den] in lowest terms with den > 0.                                *)
(***************************************************************************)
EXTENDS Integers, Sequences, FiniteSets, TLC

VARIABLES
    exercise_params,      \* VelocityCalculator.exercise_params (the registry)
    pc,                   \* position of the running operation
    velocities,           \* the velocity stream handed to the operation
    velocity_threshold,   \* _detect_reps_core parameter
    min_rep_duration,     \* _detect_reps_core parameter
    min_rest_duration,    \* _detect_reps_core parameter
    i,                    \* loop index of _detect_reps_core (1-based)
    in_rep,               \* _detect_reps_core local
    rep_start_idx,        \* _detect_reps_core local
    last_rep_end_time,    \* _detect_reps_core local
    reps,                 \* rep list being built / rep list handed to the scorer
    candidates,           \* history: the <<start, end>> index pairs closed so far
    call,                 \* the arguments of the running call (a record)
    result,               \* what the call returned (NoResult while running)
    params,               \* detect_reps local: the profile looked up
    smoothed_velocities,  \* detect_reps local
    tension_rating,       \* analyze_video local
    pose_data,            \* analyze_video local (None until process_video returns)
    log,                  \* the steps analyze_video has logged, in order
    runs                  \* the calls in progress on one shared VelocityCalculator

vars == << exercise_params, pc, velocities, velocity_threshold, min_rep_duration,
           min_rest_duration, i, in_rep, rep_start_idx, last_rep_end_time, reps,
           candidates, call, result, params, smoothed_velocities, tension_rating,
           pose_data, log, runs >>

coreVars == << velocities, velocity_threshold, min_rep_duration, min_rest_duration,
               i, in_rep, rep_start_idx, last_rep_end_time, candidates >>

\* The locals of detect_reps and analyze_video.
pipeVars == << params, smoothed_velocities, tension_rating, pose_data, log >>

(***************************************************************************)
(* Values                                                                  *)
(***************************************************************************)
NoResult == [tag |-> "running"]
\* Python's None: what a function returns when it falls off its end.
None == [tag |-> "None"]
\* An uncaught Python exception leaving the call.
Raised(e) == [tag |-> "raised", exc |-> e]
Returned(v) == [tag |-> "returned", value |-> v]
NoCall == [op |-> "none"]

Max(a, b) == IF a >= b THEN a ELSE b
Min(a, b) == IF a <= b THEN a ELSE b
Abs(a) == IF a >= 0 THEN a ELSE -a

RECURSIVE GCD(_, _)
GCD(a, b) == IF b = 0 THEN a ELSE GCD(b, a % b)

\* The rational n/d (d # 0) in lowest terms with a positive denominator.
Rat(n, d) ==
    LET s == IF d < 0 THEN -1 ELSE 1
        g == GCD(Abs(n), Abs(d))
    IN  [num |-> (s * n) \div g, den |-> (s * d) \div g]
RInt(n) == [num |-> n, den |-> 1]
RAdd(a, b) == Rat(a.num * b.den + b.num * a.den, a.den * b.den)
RSub(a, b) == Rat(a.num * b.den - b.num * a.den, a.den * b.den)
RMul(a, b) == Rat(a.num * b.num, a.den * b.den)
RDiv(a, b) == Rat(a.num * b.den, a.den * b.num)
RLeq(a, b) == a.num * b.den <= b.num * a.den
RLt(a, b) == a.num * b.den < b.num * a.den
RMin(a, b) == IF RLeq(a, b) THEN a ELSE b
RMax(a, b) == IF RLeq(b, a) THEN a ELSE b

RECURSIVE SumSeq(_)
SumSeq(s) == IF s = << >> THEN 0 ELSE Head(s) + SumSeq(Tail(s))
RECURSIVE MaxSeq(_)
MaxSeq(s) == IF Len(s) = 1 THEN s[1] ELSE Max(Head(s), MaxSeq(Tail(s)))
RECURSIVE MinSeq(_)
MinSeq(s) == IF Len(s) = 1 THEN s[1] ELSE Min(Head(s), MinSeq(Tail(s)))
\* Python's s[a:b] on 0-based indices a <= b <= len(s), as a 1-based sequence.
Slice(s, a, b) == [k \in 1..(b - a) |-> s[a + k]]
RECURSIVE RSumSeq(_)
RSumSeq(s) == IF s = << >> THEN RInt(0) ELSE RAdd(Head(s), RSumSeq(Tail(s)))
RECURSIVE RMaxSeq(_)
RMaxSeq(s) == IF Len(s) = 1 THEN s[1] ELSE RMax(Head(s), RMaxSeq(Tail(s)))
RECURSIVE RMinSeq(_)
RMinSeq(s) == IF Len(s) = 1 THEN s[1] ELSE RMin(Head(s), RMinSeq(Tail(s)))
\* np.mean / sum()/len() of a non-empty list of speeds.
Mean(s) == RDiv(RSumSeq(s), RInt(Len(s)))
\* The 'velocity' fields of a list of samples (each an exact rational).
Speeds(vs) == [k \in 1..Len(vs) |-> vs[k].velocity]

(***************************************************************************)
(* The ExerciseProfile registry (VelocityCalculator.__init__)              *)
(***************************************************************************)
Profile(vt, rep, rest, win) ==
    [velocity_threshold |-> vt, min_rep_duration |-> rep,
     min_rest_duration |-> rest, smoothing_window |-> win]

ExerciseKeys ==
    {"barbell_bench_press", "dumbbell_bench_press", "incline_bench_press", "push_up",
     "lat_pulldown", "pull_up", "seated_cable_row", "barbell_bicep_curl",
     "dumbbell_bicep_curl", "tricep_pushdown", "skull_crushers",
     "overhead_tricep_press", "shoulder_press", "lateral_raises", "barbell_squat",
     "dumbbell_goblet_squat", "deadlift", "romanian_deadlift", "lunges",
     "calf_raises", "leg_press", "hip_thrust", "bench_press", "bicep_curl", "squat",
     "default"}

InitialExerciseParams ==
    [k \in ExerciseKeys |->
        CASE k = "barbell_bench_press"   -> Profile(60, 1200, 500, 7)
          [] k = "dumbbell_bench_press"  -> Profile(50, 1000, 400, 6)
          [] k = "incline_bench_press"   -> Profile(60, 1100, 400, 6)
          [] k = "push_up"               -> Profile(60, 800, 300, 5)
          [] k = "lat_pulldown"          -> Profile(20, 200, 100, 2)
          [] k = "pull_up"               -> Profile(80, 1000, 400, 6)
          [] k = "seated_cable_row"      -> Profile(50, 900, 300, 5)
          [] k = "barbell_bicep_curl"    -> Profile(40, 700, 200, 3)
          [] k = "dumbbell_bicep_curl"   -> Profile(40, 600, 200, 3)
          [] k = "tricep_pushdown"       -> Profile(50, 600, 200, 3)
          [] k = "skull_crushers"        -> Profile(40, 800, 300, 4)
          [] k = "overhead_tricep_press" -> Profile(50, 800, 300, 4)
          [] k = "shoulder_press"        -> Profile(60, 1000, 400, 6)
          [] k = "lateral_raises"        -> Profile(40, 800, 300, 4)
          [] k = "barbell_squat"         -> Profile(80, 1500, 600, 8)
          [] k = "dumbbell_goblet_squat" -> Profile(70, 1300, 500, 7)
          [] k = "deadlift"              -> Profile(80, 1200, 800, 8)
          [] k = "romanian_deadlift"     -> Profile(70, 1000, 600, 7)
          [] k = "lunges"                -> Profile(60, 1000, 400, 6)
          [] k = "calf_raises"           -> Profile(50, 600, 200, 3)
          [] k = "leg_press"             -> Profile(70, 1200, 500, 7)
          [] k = "hip_thrust"            -> Profile(60, 1000, 400, 6)
          [] k = "bench_press"           -> Profile(50, 800, 300, 5)
          [] k = "bicep_curl"            -> Profile(40, 600, 200, 3)
          [] k = "squat"                 -> Profile(80, 1000, 400, 7)
          [] OTHER                       -> Profile(50, 600, 200, 3)]

(***************************************************************************)
(* _is_significant_movement                                                *)
(***************************************************************************)
\* 0.03, the least speed range of a real rep.
MinVelocityRange == 30

StartAvg(v) ==
    LET mid_point == Len(v) \div 2
    IN  IF mid_point > 2 THEN Mean(Slice(v, 0, mid_point \div 2)) ELSE v[1]
PeakAvg(v) ==
    LET mid_point == Len(v) \div 2
    IN  IF mid_point > 2
        THEN Mean(Slice(v, mid_point \div 2, mid_point + mid_point \div 2))
        ELSE Mean(v)
EndAvg(v) ==
    LET mid_point == Len(v) \div 2
    IN  IF mid_point > 2
        THEN Mean(Slice(v, mid_point + mid_point \div 2, Len(v)))
        ELSE v[Len(v)]

\* The interval cut into thirds (the first and last of Len \div 3 samples each).
FirstThird(v) == SubSeq(v, 1, Len(v) \div 3)
MiddleThird(v) == SubSeq(v, Len(v) \div 3 + 1, Len(v) - Len(v) \div 3)
LastThird(v) == SubSeq(v, Len(v) - Len(v) \div 3 + 1, Len(v))
\* Mutant: the peak test compares the means of the interval's thirds.
IsSignificantMovement_Thirds(rep_velocities) ==
    LET v == Speeds(rep_velocities)
    IN  IF rep_velocities = << >> THEN FALSE
        ELSE IF RLt(RSub(RMaxSeq(v), RMinSeq(v)), RInt(MinVelocityRange)) THEN FALSE
        ELSE IF Len(v) < 3 THEN FALSE
        ELSE IF RLeq(Mean(MiddleThird(v)), Mean(FirstThird(v)))
                  \/ RLeq(Mean(MiddleThird(v)), Mean(LastThird(v))) THEN FALSE
        ELSE TRUE

IsSignificantMovement(rep_velocities) ==
    LET v == Speeds(rep_velocities)
    IN  IF rep_velocities = << >> THEN FALSE
        ELSE IF RLt(RSub(RMaxSeq(v), RMinSeq(v)), RInt(MinVelocityRange)) THEN FALSE
        ELSE IF Len(v) < 3 THEN FALSE
        ELSE IF RLeq(PeakAvg(v), StartAvg(v)) \/ RLeq(PeakAvg(v), EndAvg(v)) THEN FALSE
        ELSE TRUE

\* velocity_range of a non-empty candidate.
VelocityRange(rep_velocities) ==
    RSub(RMaxSeq(Speeds(rep_velocities)), RMinSeq(Speeds(rep_velocities)))
\* `if peak_avg <= start_avg or peak_avg <= end_avg:`
NoClearPeak(rep_velocities) ==
    LET v == Speeds(rep_velocities)
    IN  RLeq(PeakAvg(v), StartAvg(v)) \/ RLeq(PeakAvg(v), EndAvg(v))

\* `if not rep_velocities: return False`
SignificantEmpty ==
    /\ pc = "_is_significant_movement" /\ velocities = << >>
    /\ result' = Returned(IsSignificantMovement(velocities))
    /\ pc' = "done"
    /\ UNCHANGED << exercise_params, coreVars, reps, call, runs, pipeVars >>

\* `if velocity_range < 0.03: return False`
SignificantFlat ==
    /\ pc = "_is_significant_movement" /\ velocities # << >>
    /\ RLt(VelocityRange(velocities), RInt(MinVelocityRange))
    /\ result' = Returned(IsSignificantMovement(velocities))
    /\ pc' = "done"
    /\ UNCHANGED << exercise_params, coreVars, reps, call, runs, pipeVars >>

\* `if len(velocities) < 3: return False`
SignificantShort ==
    /\ pc = "_is_significant_movement" /\ velocities # << >>
    /\ ~RLt(VelocityRange(velocities), RInt(MinVelocityRange))
    /\ Len(velocities) < 3
    /\ result' = Returned(IsSignificantMovement(velocities))
    /\ pc' = "done"
    /\ UNCHANGED << exercise_params, coreVars, reps, call, runs, pipeVars >>

\* `if peak_avg <= start_avg or peak_avg <= end_avg: return False`
SignificantNoPeak ==
    /\ pc = "_is_significant_movement" /\ velocities # << >>
    /\ ~RLt(VelocityRange(velocities), RInt(MinVelocityRange))
    /\ Len(velocities) >= 3
    /\ NoClearPeak(velocities)
    /\ result' = Returned(IsSignificantMovement(velocities))
    /\ pc' = "done"
    /\ UNCHANGED << exercise_params, coreVars, reps, call, runs, pipeVars >>

\* `return True`
SignificantPeak ==
    /\ pc = "_is_significant_movement" /\ velocities # << >>
    /\ ~RLt(VelocityRange(velocities), RInt(MinVelocityRange))
    /\ Len(velocities) >= 3
    /\ ~NoClearPeak(velocities)
    /\ result' = Returned(IsSignificantMovement(velocities))
    /\ pc' = "done"
    /\ UNCHANGED << exercise_params, coreVars, reps, call, runs, pipeVars >>

(***************************************************************************)
(* _detect_reps_core: the threshold-crossing state machine, one loop       *)
(* iteration per step                                                      *)
(***************************************************************************)
\* The conditions of the loop body's two branches.
\* Mutant: the threshold itself opens a rep.
OpensRep_AtThreshold(velocity, threshold) == RLeq(RInt(threshold), velocity)
\* Mutant: the duration filter only rejects empty intervals.
LongEnough_NoMinimum(rep_duration, min_rep) == rep_duration >= 0
\* Mutant: a candidate of exactly min_rep_duration is rejected.
LongEnough_Strict(rep_duration, min_rep) == rep_duration > min_rep
\* Mutant: a speed equal to the threshold closes a rep.
ClosesRep_AtThreshold(velocity, threshold) == RLeq(velocity, RInt(threshold))
\* Mutant: a candidate is accepted on its duration alone.
AcceptsCandidate_DurationOnly(vs, s, e, min_rep) ==
    vs[e].timestamp - vs[s].timestamp >= min_rep
\* Mutant: a rep may start however little time has passed since the last one.
RestedEnough_NoRest(timestamp, last_end, min_rest) == timestamp >= last_end
OpensRep(velocity, threshold) == RLt(RInt(threshold), velocity)
ClosesRep(velocity, threshold) == RLt(velocity, RInt(threshold))
RestedEnough(timestamp, last_end, min_rest) == timestamp - last_end >= min_rest
LongEnough(rep_duration, min_rep) == rep_duration >= min_rep

\* `if rep_duration >= min_rep_duration:` and, nested in it,
\* `if self._is_significant_movement(rep_velocities):`
AcceptsCandidate(vs, s, e, min_rep) ==
    /\ LongEnough(vs[e].timestamp - vs[s].timestamp, min_rep)
    /\ IsSignificantMovement(SubSeq(vs, s, e))

CoreRep(vs, s, e) ==
    [start_time   |-> vs[s].timestamp,
     end_time     |-> vs[e].timestamp,
     duration     |-> vs[e].timestamp - vs[s].timestamp,
     avg_velocity |-> Mean(Speeds(SubSeq(vs, s, e))),
     start_frame  |-> vs[s].frame,
     end_frame    |-> vs[e].frame]

\* Mutant: an interval still open at the end of the stream is emitted as a rep
\* ending at the last sample.
ReturnedReps_FlushOpen(rs, vs, open, start) ==
    IF open THEN Append(rs, CoreRep(vs, start, Len(vs))) ELSE rs
\* `return reps` after the loop: the list as built; nothing is done with an
\* interval still open (in_rep True).
ReturnedReps(rs, vs, open, start) == rs

\* Mutant: closing a candidate moves last_rep_end_time whether or not the
\* candidate is accepted.
LastRepEndAfterClose_Always(accepted, last_end, end_time) == end_time
\* `last_rep_end_time = velocities[rep_end_idx]['timestamp']`, reached only when
\* the candidate is accepted.
LastRepEndAfterClose(accepted, last_end, end_time) ==
    IF accepted THEN end_time ELSE last_end

\* `if not in_rep and velocity > velocity_threshold:` (the rest test is nested: an
\* above-threshold sample without enough rest takes this branch and does nothing).
CoreOpen ==
    /\ pc = "core_loop" /\ i <= Len(velocities)
    /\ ~in_rep /\ OpensRep(velocities[i].velocity, velocity_threshold)
    /\ IF RestedEnough(velocities[i].timestamp, last_rep_end_time, min_rest_duration)
       THEN in_rep' = TRUE /\ rep_start_idx' = i
       ELSE UNCHANGED << in_rep, rep_start_idx, pose_data >>
    /\ i' = i + 1
    /\ UNCHANGED << exercise_params, pc, velocities, velocity_threshold,
                    min_rep_duration, min_rest_duration, last_rep_end_time, reps,
                    candidates, call, runs, result, pipeVars >>

\* `elif in_rep and velocity < velocity_threshold:`
CoreClose ==
    /\ pc = "core_loop" /\ i <= Len(velocities)
    /\ in_rep /\ ClosesRep(velocities[i].velocity, velocity_threshold)
    /\ IF AcceptsCandidate(velocities, rep_start_idx, i, min_rep_duration)
           THEN reps' = Append(reps, CoreRep(velocities, rep_start_idx, i))
           ELSE UNCHANGED reps
    /\ last_rep_end_time' =
         LastRepEndAfterClose(AcceptsCandidate(velocities, rep_start_idx, i, min_rep_duration),
                              last_rep_end_time, velocities[i].timestamp)
    /\ in_rep' = FALSE
    /\ candidates' = Append(candidates, << rep_start_idx, i >>)
    /\ i' = i + 1
    /\ UNCHANGED << exercise_params, pc, velocities, velocity_threshold,
                    min_rep_duration, min_rest_duration, rep_start_idx, call, runs, result,
                    pipeVars >>

\* Neither branch: the sample changes nothing.
CoreSkip ==
    /\ pc = "core_loop" /\ i <= Len(velocities)
    /\ ~(~in_rep /\ OpensRep(velocities[i].velocity, velocity_threshold))
    /\ ~(in_rep /\ ClosesRep(velocities[i].velocity, velocity_threshold))
    /\ i' = i + 1
    /\ UNCHANGED << exercise_params, pc, velocities, velocity_threshold,
                    min_rep_duration, min_rest_duration, in_rep, rep_start_idx,
                    last_rep_end_time, reps, candidates, call, runs, result, pipeVars >>

\* `return reps` once the stream is exhausted.
CoreReturn ==
    /\ pc = "core_loop" /\ i > Len(velocities)
    /\ pc' = "done"
    /\ result' = Returned(ReturnedReps(reps, velocities, in_rep, rep_start_idx))
    /\ UNCHANGED << exercise_params, coreVars, reps, call, runs, pipeVars >>

(***************************************************************************)
(* _detect_reps_core as a function of its arguments (the loop above, run   *)
(* to its end)                                                             *)
(***************************************************************************)
RECURSIVE CoreLoop(_, _, _, _, _)
CoreLoop(vs, thr, min_rep, min_rest, st) ==
    IF st.i > Len(vs) THEN ReturnedReps(st.reps, vs, st.in_rep, st.rep_start_idx)
    ELSE LET v == vs[st.i]
             next == [st EXCEPT !.i = st.i + 1]
         IN  IF ~st.in_rep /\ OpensRep(v.velocity, thr)
             THEN IF RestedEnough(v.timestamp, st.last_rep_end_time, min_rest)
                  THEN CoreLoop(vs, thr, min_rep, min_rest,
                                [next EXCEPT !.in_rep = TRUE, !.rep_start_idx = st.i])
                  ELSE CoreLoop(vs, thr, min_rep, min_rest, next)
             ELSE IF st.in_rep /\ ClosesRep(v.velocity, thr)
             THEN IF AcceptsCandidate(vs, st.rep_start_idx, st.i, min_rep)
                  THEN CoreLoop(vs, thr, min_rep, min_rest,
                                [next EXCEPT !.in_rep = FALSE,
                                             !.reps = Append(st.reps,
                                                        CoreRep(vs, st.rep_start_idx, st.i)),
                                             !.last_rep_end_time =
                                                 LastRepEndAfterClose(TRUE, st.last_rep_end_time,
                                                                      v.timestamp)])
                  ELSE CoreLoop(vs, thr, min_rep, min_rest,
                                [next EXCEPT !.in_rep = FALSE,
                                             !.last_rep_end_time =
                                                 LastRepEndAfterClose(FALSE, st.last_rep_end_time,
                                                                      v.timestamp)])
             ELSE CoreLoop(vs, thr, min_rep, min_rest, next)

DetectRepsCore(vs, thr, min_rep, min_rest) ==
    CoreLoop(vs, thr, min_rep, min_rest,
             [i |-> 1, in_rep |-> FALSE, rep_start_idx |-> 0, last_rep_end_time |-> 0,
              reps |-> << >>])

(***************************************************************************)
(* _smooth_velocity_data                                                   *)
(***************************************************************************)
\* Mutant: the window trails the sample (the window_size samples ending at i0).
SmoothingWindow_Trailing(vs, i0, window_size) ==
    Slice(vs, Max(0, i0 - window_size + 1), i0 + 1)
\* Mutant: only the samples whose whole window exists are returned.
SmoothVelocityData_FullWindowsOnly(vs, window_size) ==
    IF Len(vs) < window_size THEN vs
    ELSE LET h == window_size \div 2
         IN  [k \in 1..Max(0, Len(vs) - 2 * h) |->
                 [vs[k + h] EXCEPT !.velocity = Mean(Speeds(Slice(vs, k - 1, k + 2 * h)))]]

\* velocities[start_idx:end_idx] around 0-based index i0.
SmoothingWindow(vs, i0, window_size) ==
    Slice(vs, Max(0, i0 - window_size \div 2),
              Min(Len(vs), i0 + window_size \div 2 + 1))

SmoothVelocityData(vs, window_size) ==
    IF Len(vs) < window_size THEN vs
    ELSE [k \in 1..Len(vs) |->
            [vs[k] EXCEPT !.velocity = Mean(Speeds(SmoothingWindow(vs, k - 1, window_size)))]]

\* `if len(velocities) < window_size: return velocities`
SmoothTooShort ==
    /\ pc = "_smooth_velocity_data" /\ Len(velocities) < call.window_size
    /\ smoothed_velocities' = SmoothVelocityData(velocities, call.window_size)
    /\ result' = Returned(smoothed_velocities')
    /\ pc' = "done"
    /\ UNCHANGED << exercise_params, coreVars, reps, call, runs, params, tension_rating, log,
                    pose_data >>

\* The loop building `smoothed`, and `return smoothed`.
SmoothAverage ==
    /\ pc = "_smooth_velocity_data" /\ Len(velocities) >= call.window_size
    /\ smoothed_velocities' = SmoothVelocityData(velocities, call.window_size)
    /\ result' = Returned(smoothed_velocities')
    /\ pc' = "done"
    /\ UNCHANGED << exercise_params, coreVars, reps, call, runs, params, tension_rating, log,
                    pose_data >>

(***************************************************************************)
(* _detect_bar_movement_reps                                               *)
(***************************************************************************)
\* 0.005 and -0.005: the least displacement that starts a pull / a release phase.
PullStartMovement == 5
ReleaseStartMovement == -5

\* Mutant: a movement is stamped with the frame it starts from.
Movements_PreviousFrame(positions) ==
    [k \in 1..(Len(positions) - 1) |->
        [frame     |-> positions[k].frame,
         timestamp |-> positions[k].timestamp,
         movement  |-> positions[k + 1].position - positions[k].position,
         position  |-> positions[k + 1].position]]
\* movements[k] is the displacement from positions[k] to positions[k+1].
Movements(positions) ==
    [k \in 1..(Len(positions) - 1) |->
        [frame     |-> positions[k + 1].frame,
         timestamp |-> positions[k + 1].timestamp,
         movement  |-> positions[k + 1].position - positions[k].position,
         position  |-> positions[k + 1].position]]

\* Mutant: a pull phase lasts only while the displacement exceeds the start
\* threshold.
RECURSIVE PullRunEnd_AboveStart(_, _)
PullRunEnd_AboveStart(ms, k) ==
    IF k <= Len(ms) /\ ms[k].movement > PullStartMovement
    THEN PullRunEnd_AboveStart(ms, k + 1) ELSE k
\* `while i < len(movements) and movements[i]['movement'] > 0: i += 1`
RECURSIVE PullRunEnd(_, _)
PullRunEnd(ms, k) ==
    IF k <= Len(ms) /\ ms[k].movement > 0 THEN PullRunEnd(ms, k + 1) ELSE k
\* `while i < len(movements) and movements[i]['movement'] < 0: i += 1`
RECURSIVE ReleaseRunEnd(_, _)
ReleaseRunEnd(ms, k) ==
    IF k <= Len(ms) /\ ms[k].movement < 0 THEN ReleaseRunEnd(ms, k + 1) ELSE k

PullPhase(ms, pull_start, pull_end) ==
    [start_frame |-> ms[pull_start].frame,
     end_frame   |-> ms[pull_end].frame,
     start_time  |-> ms[pull_start].timestamp,
     end_time    |-> ms[pull_end].timestamp,
     duration    |-> ms[pull_end].timestamp - ms[pull_start].timestamp,
     start_index |-> pull_start,
     end_index   |-> pull_end]

\* The pull phases found scanning the movements from index k on.
RECURSIVE PullPhases(_, _)
PullPhases(ms, k) ==
    IF k > Len(ms) THEN << >>
    ELSE IF ms[k].movement > PullStartMovement
    THEN LET after == PullRunEnd(ms, k)
             pull_end == after - 1
         IN  (IF pull_end > k THEN << PullPhase(ms, k, pull_end) >> ELSE << >>)
               \o PullPhases(ms, after)
    ELSE PullPhases(ms, k + 1)

\* The first movement after the pull's last frame that starts a release (0: none).
ReleaseStart(ms, pull_end_frame) ==
    LET starts == { k \in 1..Len(ms) : /\ ms[k].frame > pull_end_frame
                                       /\ ms[k].movement < ReleaseStartMovement }
    IN  IF starts = {} THEN 0 ELSE CHOOSE k \in starts : \A k2 \in starts : k <= k2
ReleaseEnd(ms, pull_end_frame) ==
    LET release_start == ReleaseStart(ms, pull_end_frame)
    IN  IF release_start = 0 THEN 0 ELSE ReleaseRunEnd(ms, release_start) - 1

BarRep(ms, pull_phase) ==
    LET release_start == ReleaseStart(ms, pull_phase.end_frame)
        release_end == ReleaseEnd(ms, pull_phase.end_frame)
    IN  [start_time       |-> pull_phase.start_time,
         end_time         |-> ms[release_end].timestamp,
         duration         |-> ms[release_end].timestamp - pull_phase.start_time,
         start_frame      |-> pull_phase.start_frame,
         end_frame        |-> ms[release_end].frame,
         pull_duration    |-> pull_phase.duration,
         release_duration |-> ms[release_end].timestamp - ms[release_start].timestamp]

\* One rep for every pull phase that a release phase follows.
RECURSIVE BarRepsOf(_, _)
BarRepsOf(ms, pull_phases) ==
    IF pull_phases = << >> THEN << >>
    ELSE (IF ReleaseStart(ms, Head(pull_phases).end_frame) # 0
          THEN << BarRep(ms, Head(pull_phases)) >> ELSE << >>)
           \o BarRepsOf(ms, Tail(pull_phases))

DetectBarMovementReps(positions) ==
    BarRepsOf(Movements(positions), PullPhases(Movements(positions), 1))

(***************************************************************************)
(* detect_reps_from_bar_movement                                           *)
(***************************************************************************)
\* The y coordinate of the sample's position tuple; the frame number when the
\* sample carries no position tuple (<< >>).
BarPosition(vel_data) ==
    IF Len(vel_data.position) = 3 THEN vel_data.position[2] ELSE vel_data.frame * 1000

BarPositions(vs) ==
    [k \in 1..Len(vs) |->
        [frame |-> vs[k].frame, timestamp |-> vs[k].timestamp,
         position |-> BarPosition(vs[k]), velocity |-> vs[k].velocity]]

\* Mutant: the bar-movement path scores with the threshold path's coefficient.
BarTensionScore_ThresholdCoefficient(avg_velocity) ==
    RMax(RInt(0), RSub(RInt(100), RDiv(RMul(avg_velocity, RInt(100)), RInt(1000))))
\* max(0, 100 - avg_velocity * 50), avg_velocity in 1/1000 units.
BarTensionScore(avg_velocity) ==
    RMax(RInt(0), RSub(RInt(100), RDiv(RMul(avg_velocity, RInt(50)), RInt(1000))))

EnhancedRep(rep, rep_velocities) ==
    [start_time      |-> rep.start_time,
     end_time        |-> rep.end_time,
     duration        |-> rep.duration,
     start_frame     |-> rep.start_frame,
     end_frame       |-> rep.end_frame,
     avg_velocity    |-> Mean(Speeds(rep_velocities)),
     max_velocity    |-> RMaxSeq(Speeds(rep_velocities)),
     min_velocity    |-> RMinSeq(Speeds(rep_velocities)),
     tension_score   |-> BarTensionScore(Mean(Speeds(rep_velocities))),
     rep_type        |-> "bar_movement",
     velocity_points |-> Len(rep_velocities)]

RECURSIVE EnhanceReps(_, _)
EnhanceReps(bar_reps, vs) ==
    IF bar_reps = << >> THEN << >>
    ELSE LET rep == Head(bar_reps)
             InRep(v) == rep.start_frame <= v.frame /\ v.frame <= rep.end_frame
             rep_velocities == SelectSeq(vs, InRep)
         IN  (IF rep_velocities # << >> THEN << EnhancedRep(rep, rep_velocities) >>
              ELSE << >>)
               \o EnhanceReps(Tail(bar_reps), vs)

DetectRepsFromBarMovement(vs) ==
    EnhanceReps(DetectBarMovementReps(BarPositions(vs)), vs)

\* One call of detect_reps_from_bar_movement: the positions, the matcher, the
\* per-rep statistics, `return enhanced_reps`.
BarMovementDetect ==
    /\ pc = "detect_reps_from_bar_movement"
    /\ reps' = DetectRepsFromBarMovement(velocities)
    /\ result' = Returned(reps')
    /\ pc' = "done"
    /\ UNCHANGED << exercise_params, coreVars, call, runs, pipeVars >>

(***************************************************************************)
(* detect_reps                                                             *)
(***************************************************************************)
\* Mutant: the lookup stores the default profile under an unknown key
\* (dict.setdefault in place of dict.get).
RegistryAfterLookup_SetDefault(registry, exercise_type) ==
    [e \in DOMAIN registry \cup {exercise_type} |->
        IF e \in DOMAIN registry THEN registry[e] ELSE registry["default"]]
\* The registry after `self.exercise_params.get(exercise_type, ...)`: dict.get
\* inserts nothing.
RegistryAfterLookup(registry, exercise_type) == registry

\* Mutant: an unknown key is served by the first profile of the table.
ProfileFor_WrongFallback(registry, exercise_type) ==
    IF exercise_type \in DOMAIN registry THEN registry[exercise_type]
    ELSE registry["barbell_bench_press"]
\* self.exercise_params.get(exercise_type, self.exercise_params['default'])
ProfileFor(registry, exercise_type) ==
    IF exercise_type \in DOMAIN registry THEN registry[exercise_type]
    ELSE registry["default"]

\* `override or default`: None and 0 (both written 0 here) give the default.
OrDefault(override, default) == IF override = 0 THEN default ELSE override

\* `if exercise_type == 'lat_pulldown':`
UsesBarMovement(exercise_type) == exercise_type = "lat_pulldown"

\* What detect_reps returns.
DetectRepsValue(registry, vs, exercise_type) ==
    IF vs = << >> THEN Returned(<< >>)
    ELSE LET smoothed ==
                 SmoothVelocityData(vs, ProfileFor(registry, exercise_type).smoothing_window)
         IN  IF UsesBarMovement(exercise_type)
             THEN Returned(DetectRepsFromBarMovement(smoothed))
             ELSE None

\* `if not velocities: return []`
DetectEmpty ==
    /\ pc = "detect_reps" /\ velocities = << >>
    /\ result' = Returned(<< >>)
    /\ pc' = "done"
    /\ UNCHANGED << exercise_params, coreVars, reps, call, runs, pipeVars >>

\* The profile lookup, the overrides and the smoothing.
DetectPrepare ==
    /\ pc = "detect_reps" /\ velocities # << >>
    /\ LET p == ProfileFor(exercise_params, call.exercise_type)
       IN  /\ params' = p
           /\ velocity_threshold' = OrDefault(call.velocity_threshold, p.velocity_threshold)
           /\ min_rep_duration' = OrDefault(call.min_rep_duration, p.min_rep_duration)
           /\ min_rest_duration' = OrDefault(call.min_rest_duration, p.min_rest_duration)
           /\ smoothed_velocities' = SmoothVelocityData(velocities, p.smoothing_window)
    /\ exercise_params' = RegistryAfterLookup(exercise_params, call.exercise_type)
    /\ pc' = "detect_dispatch"
    /\ UNCHANGED << velocities, i, in_rep, rep_start_idx,
                    last_rep_end_time, candidates, reps, call, runs, result, tension_rating,
                    log, pose_data >>

\* `if exercise_type == 'lat_pulldown': ... return reps`
DetectBarMovement ==
    /\ pc = "detect_dispatch" /\ UsesBarMovement(call.exercise_type)
    /\ reps' = DetectRepsFromBarMovement(smoothed_velocities)
    /\ result' = Returned(reps')
    /\ pc' = "done"
    /\ UNCHANGED << exercise_params, coreVars, call, runs, pipeVars >>

\* Every other exercise: the function body ends after the `if`, so the call
\* returns None.
DetectFallOffEnd ==
    /\ pc = "detect_dispatch" /\ ~UsesBarMovement(call.exercise_type)
    /\ result' = None
    /\ pc' = "done"
    /\ UNCHANGED << exercise_params, coreVars, reps, call, runs, pipeVars >>

(***************************************************************************)
(* calculate_rep_tension_score and calculate_overall_tension_rating        *)
(***************************************************************************)
\* Python's round(x, 1) on the exact value: to the nearest tenth, ties to even.
Round1(x) ==
    LET n == x.num * 10
        q == n \div x.den
        r == n - q * x.den
        up == 2 * r > x.den \/ (2 * r = x.den /\ q % 2 = 1)
    IN  Rat(IF up THEN q + 1 ELSE q, 10)

\* Mutant: the average speed itself is taken as the score (the inversion is lost).
VelocityScore_Direct(avg_velocity) == RMin(RInt(100), RMul(avg_velocity, RInt(100)))
\* max(0, 100 - (avg_velocity * 100))
VelocityScore(avg_velocity) ==
    RMax(RInt(0), RSub(RInt(100), RMul(avg_velocity, RInt(100))))
\* max(0, 100 - (max_velocity * 80))
ControlScore(max_velocity) ==
    RMax(RInt(0), RSub(RInt(100), RMul(max_velocity, RInt(80))))
\* min(100, duration * 20)
DurationScore(duration) == RMin(RInt(100), RMul(duration, RInt(20)))

\* Speeds in 1/1000 units and durations in ms, converted where the code's
\* coefficients apply to units and seconds.
RepTensionScore(rep_data) ==
    LET avg_velocity == RDiv(rep_data.avg_velocity, RInt(1000))
        max_velocity == RDiv(rep_data.max_velocity, RInt(1000))
        duration == Rat(rep_data.duration, 1000)
        tension_score == RAdd(RAdd(RMul(VelocityScore(avg_velocity), Rat(5, 10)),
                                   RMul(ControlScore(max_velocity), Rat(3, 10))),
                              RMul(DurationScore(duration), Rat(2, 10)))
    IN  RMin(RInt(100), RMax(RInt(0), tension_score))

\* One call of calculate_rep_tension_score.
ScoreRep ==
    /\ pc = "calculate_rep_tension_score"
    /\ result' = Returned(RepTensionScore(call.rep_data))
    /\ pc' = "done"
    /\ UNCHANGED << exercise_params, coreVars, reps, call, runs, pipeVars >>

\* np.linspace(0.8, 1.2, n)[k-1]
LinspaceWeight(n, k) ==
    IF n = 1 THEN Rat(8, 10) ELSE RAdd(Rat(8, 10), Rat(4 * (k - 1), 10 * (n - 1)))

AvgVelocities(rs) == [k \in 1..Len(rs) |-> rs[k].avg_velocity]
TensionScores(rs) == [k \in 1..Len(rs) |-> rs[k].tension_score]

\* (first_avg_vel - second_avg_vel) / first_avg_vel if first_avg_vel > 0 else 0
VelocityDecay(first_avg_vel, second_avg_vel) ==
    IF RLt(RInt(0), first_avg_vel)
    THEN RDiv(RSub(first_avg_vel, second_avg_vel), first_avg_vel)
    ELSE RInt(0)

\* Mutant: the bonus for slowing down is not capped.
DecayBonus_Uncapped(velocity_decay) == RMul(velocity_decay, RInt(50))
\* min(20, velocity_decay * 50)
DecayBonus(velocity_decay) == RMin(RInt(20), RMul(velocity_decay, RInt(50)))

\* The branch taken when reps[0] carries a tension_score.
ScoredRating(rs) ==
    LET avg_tension == Mean(TensionScores(rs))
        half == Len(rs) \div 2
        first_avg_vel == Mean(AvgVelocities(Slice(rs, 0, half)))
        second_avg_vel == Mean(AvgVelocities(Slice(rs, half, Len(rs))))
    IN  IF Len(rs) > 1
        THEN RMin(RInt(100),
                  RAdd(avg_tension, DecayBonus(VelocityDecay(first_avg_vel, second_avg_vel))))
        ELSE avg_tension

\* The fallback branch: weighted mean of the per-rep scores, rounded.
LegacyRating(rs) ==
    LET n == Len(rs)
        weighted == [k \in 1..n |-> RMul(RepTensionScore(rs[k]), LinspaceWeight(n, k))]
        weights == [k \in 1..n |-> LinspaceWeight(n, k)]
    IN  Round1(RDiv(RSumSeq(weighted), RSumSeq(weights)))

HasTensionScore(rep) == "tension_score" \in DOMAIN rep

OverallTensionRating(rs) ==
    IF rs = << >> THEN RInt(0)
    ELSE IF HasTensionScore(rs[1]) THEN ScoredRating(rs)
    ELSE LegacyRating(rs)

\* `if not reps: return 0.0`
RateNoReps ==
    /\ pc = "calculate_overall_tension_rating" /\ reps = << >>
    /\ tension_rating' = OverallTensionRating(reps)
    /\ result' = Returned(tension_rating')
    /\ pc' = "done"
    /\ UNCHANGED << exercise_params, coreVars, reps, call, runs, params, smoothed_velocities,
                    log, pose_data >>

\* `if 'tension_score' in reps[0]:`
RateScoredReps ==
    /\ pc = "calculate_overall_tension_rating" /\ reps # << >>
    /\ HasTensionScore(reps[1])
    /\ tension_rating' = OverallTensionRating(reps)
    /\ result' = Returned(tension_rating')
    /\ pc' = "done"
    /\ UNCHANGED << exercise_params, coreVars, reps, call, runs, params, smoothed_velocities,
                    log, pose_data >>

\* `# Fallback to old method for other exercises`
RateLegacyReps ==
    /\ pc = "calculate_overall_tension_rating" /\ reps # << >>
    /\ ~HasTensionScore(reps[1])
    /\ tension_rating' = OverallTensionRating(reps)
    /\ result' = Returned(tension_rating')
    /\ pc' = "done"
    /\ UNCHANGED << exercise_params, coreVars, reps, call, runs, params, smoothed_velocities,
                    log, pose_data >>

(***************************************************************************)
(* Two calls interleaved on one VelocityCalculator.  Each run has its own  *)
(* arguments and locals (a record of runs); self.exercise_params is shared. *)
(***************************************************************************)
OtherRun(r) == 3 - r
\* Run r has started detect_reps and not yet returned.
MidCall(r) == runs[r].pc = "detect_dispatch"
RunStep(r, changes) ==
    [runs EXCEPT ![r] = [f \in DOMAIN runs[r] |->
        IF f \in DOMAIN changes THEN changes[f]
        ELSE IF f = "overlapped" THEN runs[r].overlapped \/ MidCall(OtherRun(r))
        ELSE runs[r][f]]]

\* detect_reps: `if not velocities: return []`
RunDetectEmpty(r) ==
    /\ runs[r].pc = "detect_reps" /\ runs[r].velocities = << >>
    /\ runs' = RunStep(r, [pc |-> "done", result |-> Returned(<< >>)])
    /\ UNCHANGED << exercise_params, coreVars, pc, reps, call, result, pipeVars >>

\* detect_reps: the profile lookup and the smoothing.
RunDetectPrepare(r) ==
    /\ runs[r].pc = "detect_reps" /\ runs[r].velocities # << >>
    /\ LET p == ProfileFor(exercise_params, runs[r].call.exercise_type)
       IN  runs' = RunStep(r, [pc |-> "detect_dispatch", params |-> p,
                               smoothed_velocities |->
                                   SmoothVelocityData(runs[r].velocities, p.smoothing_window)])
    /\ exercise_params' = RegistryAfterLookup(exercise_params, runs[r].call.exercise_type)
    /\ UNCHANGED << coreVars, pc, reps, call, result, pipeVars >>

\* detect_reps: `if exercise_type == 'lat_pulldown': ... return reps`
RunDetectBarMovement(r) ==
    /\ runs[r].pc = "detect_dispatch" /\ UsesBarMovement(runs[r].call.exercise_type)
    /\ runs' = RunStep(r, [pc |-> "done",
                           result |-> Returned(DetectRepsFromBarMovement(
                                                   runs[r].smoothed_velocities))])
    /\ UNCHANGED << exercise_params, coreVars, pc, reps, call, result, pipeVars >>

\* detect_reps: the end of the body for every other exercise.
RunDetectFallOffEnd(r) ==
    /\ runs[r].pc = "detect_dispatch" /\ ~UsesBarMovement(runs[r].call.exercise_type)
    /\ runs' = RunStep(r, [pc |-> "done", result |-> None])
    /\ UNCHANGED << exercise_params, coreVars, pc, reps, call, result, pipeVars >>

\* calculate_overall_tension_rating, which reads its argument only.
RunRate(r) ==
    /\ runs[r].pc = "calculate_overall_tension_rating"
    /\ runs' = RunStep(r, [pc |-> "done",
                           result |-> Returned(OverallTensionRating(runs[r].reps))])
    /\ UNCHANGED << exercise_params, coreVars, pc, reps, call, result, pipeVars >>

(***************************************************************************)
(* calculate_velocity and calculate_joint_velocities                       *)
(***************************************************************************)
\* The integer square root, by bisection on lo <= root < hi.
RECURSIVE ISqrtBetween(_, _, _)
ISqrtBetween(n, lo, hi) ==
    IF hi - lo <= 1 THEN lo
    ELSE LET mid == (lo + hi) \div 2
         IN  IF mid * mid <= n THEN ISqrtBetween(n, mid, hi) ELSE ISqrtBetween(n, lo, mid)
\* np.sqrt on the squared distances the model draws, all perfect squares.
ISqrt(n) == ISqrtBetween(n, 0, n + 1)

\* Mutant: a zero time difference is counted as one millisecond.
CalculateVelocity_ZeroAsOneTick(pos1, pos2, time_diff) ==
    Rat(1000 * ISqrt((pos2[1] - pos1[1]) * (pos2[1] - pos1[1])
                     + (pos2[2] - pos1[2]) * (pos2[2] - pos1[2])
                     + (pos2[3] - pos1[3]) * (pos2[3] - pos1[3])),
        IF time_diff = 0 THEN 1 ELSE time_diff)

\* Distance in 1/1000 units over time_diff ms, as a speed in 1/1000 units per second.
CalculateVelocity(pos1, pos2, time_diff) ==
    IF time_diff = 0 THEN RInt(0)
    ELSE Rat(1000 * ISqrt((pos2[1] - pos1[1]) * (pos2[1] - pos1[1])
                          + (pos2[2] - pos1[2]) * (pos2[2] - pos1[2])
                          + (pos2[3] - pos1[3]) * (pos2[3] - pos1[3])),
             time_diff)

\* joint_idx = 0 if side == 'left' else 1, as a 1-based index.
JointIdx(side) == IF side = "left" THEN 1 ELSE 2
Coords(pos) == << pos.x, pos.y, pos.z >>

\* `if joint_name not in prev_landmarks or joint_name not in curr_landmarks: continue`
PairSkipped(prev_frame, curr_frame, joint_name) ==
    \/ joint_name \notin DOMAIN prev_frame.landmarks
    \/ joint_name \notin DOMAIN curr_frame.landmarks

\* prev_landmarks[joint_name][joint_idx] or curr_landmarks[joint_name][joint_idx]
\* indexes past the end of the joint's position list.
PairIndexError(prev_frame, curr_frame, joint_name, side) ==
    /\ ~PairSkipped(prev_frame, curr_frame, joint_name)
    /\ \/ JointIdx(side) > Len(prev_frame.landmarks[joint_name])
       \/ JointIdx(side) > Len(curr_frame.landmarks[joint_name])

VelocitySample(prev_frame, curr_frame, joint_name, side) ==
    LET prev_coords == Coords(prev_frame.landmarks[joint_name][JointIdx(side)])
        curr_coords == Coords(curr_frame.landmarks[joint_name][JointIdx(side)])
    IN  [frame     |-> curr_frame.frame_number,
         timestamp |-> curr_frame.timestamp,
         velocity  |-> CalculateVelocity(prev_coords, curr_coords,
                                         curr_frame.timestamp - prev_frame.timestamp),
         position  |-> curr_coords]

\* The samples appended for the pairs (k-1, k), k from `from` on.
RECURSIVE VelocitiesFrom(_, _, _, _)
VelocitiesFrom(pose, from, joint_name, side) ==
    IF from > Len(pose) THEN << >>
    ELSE (IF PairSkipped(pose[from - 1], pose[from], joint_name) THEN << >>
          ELSE << VelocitySample(pose[from - 1], pose[from], joint_name, side) >>)
           \o VelocitiesFrom(pose, from + 1, joint_name, side)

\* What calculate_joint_velocities does: the list, or the IndexError of the first
\* pair that indexes a missing side.
CalculateJointVelocities(pose, joint_name, side) ==
    IF \E k \in 2..Len(pose) : PairIndexError(pose[k - 1], pose[k], joint_name, side)
    THEN Raised("IndexError")
    ELSE Returned(VelocitiesFrom(pose, 2, joint_name, side))

ExtractReturns ==
    /\ pc = "calculate_joint_velocities"
    /\ CalculateJointVelocities(call.pose_data, call.joint_name, call.side).tag = "returned"
    /\ result' = CalculateJointVelocities(call.pose_data, call.joint_name, call.side)
    /\ velocities' = result'.value
    /\ pc' = "done"
    /\ UNCHANGED << exercise_params, velocity_threshold, min_rep_duration,
                    min_rest_duration, i, in_rep, rep_start_idx, last_rep_end_time,
                    candidates, reps, call, runs, pipeVars >>

ExtractRaises ==
    /\ pc = "calculate_joint_velocities"
    /\ CalculateJointVelocities(call.pose_data, call.joint_name, call.side).tag = "raised"
    /\ result' = CalculateJointVelocities(call.pose_data, call.joint_name, call.side)
    /\ pc' = "done"
    /\ UNCHANGED << exercise_params, coreVars, reps, call, runs, pipeVars >>

(***************************************************************************)
(* TensionAnalyzer.analyze_video                                           *)
(***************************************************************************)
ErrorResponse(error_message) ==
    [success              |-> FALSE,
     error                |-> error_message,
     tension_rating       |-> RInt(0),
     rep_count            |-> 0,
     reps                 |-> << >>,
     force_velocity_graph |-> "empty_graph",
     velocity_timeline    |-> None,
     rep_comparison       |-> None,
     analysis_summary     |-> error_message,
     recommendations      |-> << "Please upload a clear video showing the full exercise movement" >>]

Durations(rs) == [k \in 1..Len(rs) |-> RInt(rs[k].duration)]
\* The squared deviations of the reps' average speeds from their mean.
SquaredDeviations(vs) ==
    [k \in 1..Len(vs) |-> RMul(RSub(vs[k], Mean(vs)), RSub(vs[k], Mean(vs)))]

\* The closing sentence of _generate_summary.
SummaryVerdict(rating) ==
    IF RLeq(RInt(80), rating) THEN "Excellent mechanical tension!"
    ELSE IF RLeq(RInt(60), rating) THEN "Good tension, but there's room for improvement."
    ELSE "Low tension detected."

GenerateSummary(rating, rs) ==
    [analyzed     |-> Len(rs),
     avg_duration |-> IF rs # << >> THEN Mean(Durations(rs)) ELSE RInt(0),
     avg_velocity |-> IF rs # << >> THEN Mean(AvgVelocities(rs)) ELSE RInt(0),
     verdict      |-> SummaryVerdict(rating)]

\* Mutant: the closing praise is appended whatever was recommended before.
GenerateRecommendations_AlwaysPraise(rating, rs) ==
    (IF RLt(rating, RInt(60))
     THEN << "Slow down your repetitions - aim for 3-4 seconds per phase",
             "Focus on the eccentric (lowering) portion of the movement" >>
     ELSE << >>)
      \o << "Great form! Maintain this tempo and focus on progressive overload",
            "Consider adding a pause at peak contraction for even more tension" >>

GenerateRecommendations(rating, rs) ==
    LET slow == IF RLt(rating, RInt(60))
                THEN << "Slow down your repetitions - aim for 3-4 seconds per phase",
                        "Focus on the eccentric (lowering) portion of the movement" >>
                ELSE << >>
        longer == IF rs # << >> /\ RLt(Mean(Durations(rs)), RInt(2000))
                  THEN << "Increase time under tension - each rep should take at least 2-3 seconds" >>
                  ELSE << >>
        \* velocity_std > 0.1, squared: variance > 0.01 units^2 = 10000 (1/1000 units)^2
        steady == IF Len(rs) > 1 /\ RLt(RInt(10000), Mean(SquaredDeviations(AvgVelocities(rs))))
                  THEN << "Try to maintain consistent tempo across all reps" >>
                  ELSE << >>
        recommendations == slow \o longer \o steady
    IN  IF recommendations = << >>
        THEN << "Great form! Maintain this tempo and focus on progressive overload",
                "Consider adding a pause at peak contraction for even more tension" >>
        ELSE recommendations

SuccessResponse(rating, rs) ==
    [success              |-> TRUE,
     tension_rating       |-> rating,
     rep_count            |-> Len(rs),
     reps                 |-> rs,
     force_velocity_graph |-> "graph",
     velocity_timeline    |-> "graph",
     rep_comparison       |-> "graph",
     analysis_summary     |-> GenerateSummary(rating, rs),
     recommendations      |-> GenerateRecommendations(rating, rs)]

\* Mutant: only a missing result counts as "no reps".
NoRepsDetected_OnlyNone(detected) == detected = None
\* `if not reps:` on what detect_reps returned: None and [] are both falsy.
NoRepsDetected(detected) == IF detected = None THEN TRUE ELSE detected.value = << >>

\* The entries process_video appends for the frames `from` (1-based) on.  Every
\* frame read is counted, so the k-th frame of the video keeps frame_number k - 1
\* and timestamp (k - 1) / fps (in ms; the fps values drawn divide 1000) whether or
\* not a pose was found in the frames before it.
RECURSIVE PoseDataFrom(_, _)
PoseDataFrom(video, from) ==
    IF from > Len(video.frames) THEN << >>
    ELSE (IF video.frames[from] = None THEN << >>
          ELSE << [frame_number |-> from - 1,
                   timestamp    |-> (1000 * (from - 1)) \div video.fps,
                   landmarks    |-> video.frames[from].landmarks] >>)
           \o PoseDataFrom(video, from + 1)

\* What process_video does on a video (opened: cap.isOpened(); fps: CAP_PROP_FPS;
\* frames: what detect_pose returns for each frame read): [] for a file that does
\* not open, the ZeroDivisionError of `frame_number / fps` at the first frame with
\* a pose when fps is 0, else the frames with a pose.
ProcessVideo(video) ==
    IF ~video.opened THEN Returned(<< >>)
    ELSE IF video.fps = 0 /\ \E k \in 1..Len(video.frames) : video.frames[k] # None
    THEN Raised("ZeroDivisionError")
    ELSE Returned(PoseDataFrom(video, 1))

\* Step 1: pose_detector.process_video, then `if not pose_data:`.  An exception of
\* the call leaves analyze_video.
AnalyzeNoPose ==
    /\ pc = "analyze_video" /\ ProcessVideo(call.video) = Returned(<< >>)
    /\ log' = Append(log, "Step 1: Detecting pose in video frames...")
    /\ pose_data' = << >>
    /\ result' = Returned(ErrorResponse("No pose detected in video"))
    /\ pc' = "done"
    /\ UNCHANGED << exercise_params, coreVars, reps, call, runs, params, smoothed_velocities,
                    tension_rating >>

AnalyzePoseRaises ==
    /\ pc = "analyze_video" /\ ProcessVideo(call.video).tag = "raised"
    /\ log' = Append(log, "Step 1: Detecting pose in video frames...")
    /\ result' = ProcessVideo(call.video)
    /\ pc' = "done"
    /\ UNCHANGED << exercise_params, coreVars, reps, call, runs, params, smoothed_velocities,
                    tension_rating, pose_data >>

AnalyzePoseDetected ==
    /\ pc = "analyze_video"
    /\ ProcessVideo(call.video).tag = "returned" /\ ProcessVideo(call.video).value # << >>
    /\ log' = Append(log, "Step 1: Detecting pose in video frames...")
    /\ pose_data' = ProcessVideo(call.video).value
    /\ pc' = "step2"
    /\ UNCHANGED << exercise_params, coreVars, reps, call, runs, result, params,
                    smoothed_velocities, tension_rating >>

\* Step 2: calculate_joint_velocities, then `if not velocities:`.  An exception of
\* the call leaves analyze_video.
\* (log keeps each step's header line, without the joint or exercise name the
\* source interpolates into it.)
AnalyzeVelocities ==
    /\ pc = "step2"
    /\ log' = Append(log, "Step 2: Calculating velocities...")
    /\ LET got == CalculateJointVelocities(pose_data, call.joint_name, call.side)
       IN  IF got.tag = "raised"
           THEN result' = got /\ pc' = "done" /\ UNCHANGED velocities
           ELSE IF got.value = << >>
           THEN /\ result' = Returned(ErrorResponse("Could not track joint movement"))
                /\ pc' = "done" /\ UNCHANGED velocities
           ELSE velocities' = got.value /\ pc' = "step3" /\ UNCHANGED result
    /\ UNCHANGED << exercise_params, velocity_threshold, min_rep_duration,
                    min_rest_duration, i, in_rep, rep_start_idx, last_rep_end_time,
                    candidates, reps, call, runs, params, smoothed_velocities, tension_rating,
                    pose_data >>

\* Step 3: detect_reps, then `if not reps:`.
AnalyzeNoReps ==
    /\ pc = "step3"
    /\ NoRepsDetected(DetectRepsValue(exercise_params, velocities, call.exercise_type))
    /\ log' = Append(log, "Step 3: Detecting repetitions...")
    /\ result' = Returned(ErrorResponse("No repetitions detected. Try recording a full set."))
    /\ pc' = "done"
    /\ UNCHANGED << exercise_params, coreVars, reps, call, runs, params, smoothed_velocities,
                    tension_rating, pose_data >>

AnalyzeRepsDetected ==
    /\ pc = "step3"
    /\ ~NoRepsDetected(DetectRepsValue(exercise_params, velocities, call.exercise_type))
    /\ log' = Append(log, "Step 3: Detecting repetitions...")
    /\ reps' = DetectRepsValue(exercise_params, velocities, call.exercise_type).value
    /\ pc' = "step4"
    /\ UNCHANGED << exercise_params, coreVars, call, runs, result, params, smoothed_velocities,
                    tension_rating, pose_data >>

\* Step 4: calculate_overall_tension_rating.
AnalyzeRating ==
    /\ pc = "step4"
    /\ log' = Append(log, "Step 4: Calculating tension rating...")
    /\ tension_rating' = OverallTensionRating(reps)
    /\ pc' = "step5"
    /\ UNCHANGED << exercise_params, coreVars, reps, call, runs, result, params,
                    smoothed_velocities, pose_data >>

\* What generate_rep_comparison leaves in the rep dicts it was handed:
\* `if 'rep_number' not in rep: rep['rep_number'] = i + 1`.
RepsAfterRepComparison(rs) ==
    [k \in 1..Len(rs) |->
        IF "rep_number" \in DOMAIN rs[k] THEN rs[k]
        ELSE [f \in DOMAIN rs[k] \cup {"rep_number"} |->
                 IF f = "rep_number" THEN k ELSE rs[k][f]]]

\* Steps 5 and 6: the graphs (drawn by the graph generator, which numbers the reps
\* in place) and the report, compiled from the numbered reps.
AnalyzeCompile ==
    /\ pc = "step5"
    /\ log' = log \o << "Step 5: Generating visualizations...", "Analysis complete!" >>
    /\ reps' = RepsAfterRepComparison(reps)
    /\ result' = Returned(SuccessResponse(tension_rating, reps'))
    /\ pc' = "done"
    /\ UNCHANGED << exercise_params, coreVars, call, runs, params, smoothed_velocities,
                    tension_rating, pose_data >>

(***************************************************************************)
(* Input streams of the threshold segmenter                                *)
(***************************************************************************)
\* Longest arbitrary stream, cycles per wave, ramp steps, rest samples.
MaxLen == 4
MaxCycles == 2
MaxRamp == 3
MaxGap == 2

\* Samples `speeds` at a uniform step dt, the first at off*dt; frame k is sample k.
Stream(speeds, dt, off) ==
    [k \in 1..Len(speeds) |->
        [frame |-> k, timestamp |-> (k - 1 + off) * dt, velocity |-> RInt(speeds[k]),
         position |-> << 0, 0, 0 >>]]

RECURSIVE Repeat(_, _)
Repeat(x, n) == IF n <= 0 THEN << >> ELSE << x >> \o Repeat(x, n - 1)

\* One triangular cycle: lo, lo+s, .., lo+U*s, .., lo+s, lo  (2U+1 samples).
Cycle(lo, s, U) ==
    [k \in 1..(2 * U + 1) |-> IF k <= U + 1 THEN lo + (k - 1) * s
                              ELSE lo + (2 * U + 1 - k) * s]
RECURSIVE Cycles(_, _, _, _, _)
Cycles(N, lo, s, U, G) ==
    IF N = 0 THEN << >>
    ELSE Cycle(lo, s, U) \o Repeat(lo, G) \o Cycles(N - 1, lo, s, U, G)
\* L resting samples, then N cycles, consecutive cycles G resting samples apart.
WaveSpeeds(N, L, lo, s, U, G) == Repeat(lo, L) \o Cycles(N, lo, s, U, G)

\* The scenario of the specification's section 8.
ScenarioSpeeds == << 0, 0, 100, 150, 200, 150, 100, 20, 0, 0, 100, 150, 200, 100, 20, 0 >>
ScenarioCall(off) ==
    [op |-> "_detect_reps_core", kind |-> "scenario",
     velocities |-> Stream(ScenarioSpeeds, 100, off),
     velocity_threshold |-> 50, min_rep_duration |-> 1000, min_rest_duration |-> 300]

WaveCalls ==
    { [op |-> "_detect_reps_core", kind |-> "wave",
       N |-> N, L |-> L, lo |-> lo, s |-> s, U |-> U, G |-> G, dt |-> dt,
       velocities |-> Stream(WaveSpeeds(N, L, lo, s, U, G), dt, 0),
       velocity_threshold |-> 50, min_rep_duration |-> rep, min_rest_duration |-> 300] :
       N \in 1..MaxCycles, L \in 0..2, lo \in {0, 40}, s \in {15, 25, 50}, U \in 1..MaxRamp,
       G \in 0..MaxGap, dt \in {125, 250}, rep \in {500, 625} }

FreeCalls ==
    { [op |-> "_detect_reps_core", kind |-> "free",
       velocities |-> Stream(sp, 300, off),
       velocity_threshold |-> 50, min_rep_duration |-> 600, min_rest_duration |-> 200] :
       sp \in UNION { [1..n -> {0, 20, 50, 60, 100}] : n \in 0..MaxLen }, off \in {0, 1} }

\* The scenario stream under shorter minimum durations.
MixedCalls ==
    { [op |-> "_detect_reps_core", kind |-> "mixed",
       velocities |-> Stream(ScenarioSpeeds, 100, 1),
       velocity_threshold |-> 50, min_rep_duration |-> rep, min_rest_duration |-> 300] :
       rep \in {450, 500} }

\* The scenario stream with its second movement held above the threshold, cut
\* after n samples: one rep is emitted and the stream ends inside the next.
TrailingSpeeds == SubSeq(ScenarioSpeeds, 1, 13) \o << 150, 100, 100 >>
TrailingCalls ==
    { [op |-> "_detect_reps_core", kind |-> "trailing",
       velocities |-> Stream(SubSeq(TrailingSpeeds, 1, n), 100, 1),
       velocity_threshold |-> 50, min_rep_duration |-> 450, min_rest_duration |-> 300] :
       n \in 11..16 }

\* Two movements at 0.125 s steps, the speed back above the threshold one sample
\* after the first movement ends (gap 0) or after 1 or 2 resting samples.
RestedSpeeds(gap) ==
    << 0, 0, 100, 150, 200, 150, 100, 20 >> \o Repeat(0, gap)
      \o << 60, 100, 150, 200, 150, 100, 20 >>
RestedCalls ==
    { [op |-> "_detect_reps_core", kind |-> "rested",
       velocities |-> Stream(RestedSpeeds(gap), 125, 1),
       velocity_threshold |-> 50, min_rep_duration |-> 500, min_rest_duration |-> 250] :
       gap \in 0..2 }

CoreCalls ==
    { ScenarioCall(off) : off \in {0, 1} } \cup WaveCalls \cup FreeCalls \cup MixedCalls
      \cup TrailingCalls \cup RestedCalls

InitCore ==
    /\ exercise_params = InitialExerciseParams
    /\ call \in CoreCalls
    /\ velocities = call.velocities
    /\ velocity_threshold = call.velocity_threshold
    /\ min_rep_duration = call.min_rep_duration
    /\ min_rest_duration = call.min_rest_duration
    /\ pc = "core_loop"
    /\ i = 1
    /\ in_rep = FALSE
    /\ rep_start_idx = 0
    /\ last_rep_end_time = 0
    /\ reps = << >>
    /\ candidates = << >>
    /\ result = NoResult
    /\ params = None /\ smoothed_velocities = << >>
    /\ tension_rating = None /\ pose_data = None /\ log = << >>
    /\ runs = << >>

NextCore == CoreOpen \/ CoreClose \/ CoreSkip \/ CoreReturn

\* The threshold segmenter run on one stream.
SpecCore == InitCore /\ [][NextCore]_vars

(***************************************************************************)
(* Calls of detect_reps                                                    *)
(***************************************************************************)
\* Longest free position series.
MaxBarLen == 4

\* The position series of the specification's section 8, in 1/1000 units.
ScenarioPositions == << 0, 1000, 2000, 3000, 2000, 1000, 0 >>

\* Speed of sample k under a pattern: constant, or rising and falling.
PatternSpeed(pattern, k) ==
    IF pattern = "flat" THEN 120 ELSE 60 * (1 + (k % 3))

\* Samples at 0.1 s steps; sample k is frame k and carries y = ys[k].
BarStream(ys, pattern) ==
    [k \in 1..Len(ys) |->
        [frame |-> k, timestamp |-> k * 100, velocity |-> RInt(PatternSpeed(pattern, k)),
         position |-> << 0, ys[k], 0 >>]]

DetectExerciseTypes == {"lat_pulldown", "default", "bench_press", "zumba"}

DetectCalls ==
    { [op |-> "detect_reps", exercise_type |-> e, velocities |-> BarStream(ys, pat),
       velocity_threshold |-> 0, min_rep_duration |-> 0, min_rest_duration |-> 0] :
       e \in DetectExerciseTypes, pat \in {"flat", "saw"},
       ys \in {ScenarioPositions}
                \cup UNION { [1..n -> {0, 4, 10, 1000}] : n \in 0..MaxBarLen } }
    \cup
    { [op |-> "detect_reps", exercise_type |-> e,
       velocities |-> Stream(ScenarioSpeeds, 100, 1),
       velocity_threshold |-> vt, min_rep_duration |-> 0, min_rest_duration |-> 0] :
       e \in DetectExerciseTypes, vt \in {0, 70} }

InitDetect ==
    /\ exercise_params = InitialExerciseParams
    /\ call \in DetectCalls
    /\ velocities = call.velocities
    /\ velocity_threshold = call.velocity_threshold
    /\ min_rep_duration = call.min_rep_duration
    /\ min_rest_duration = call.min_rest_duration
    /\ pc = "detect_reps"
    /\ i = 1
    /\ in_rep = FALSE
    /\ rep_start_idx = 0
    /\ last_rep_end_time = 0
    /\ reps = << >>
    /\ candidates = << >>
    /\ result = NoResult
    /\ params = None /\ smoothed_velocities = << >>
    /\ tension_rating = None /\ pose_data = None /\ log = << >>
    /\ runs = << >>

NextDetect == DetectEmpty \/ DetectPrepare \/ DetectBarMovement \/ DetectFallOffEnd

\* One call of detect_reps.
SpecDetect == InitDetect /\ [][NextDetect]_vars

(***************************************************************************)
(* Calls of calculate_overall_tension_rating                               *)
(***************************************************************************)
\* Most reps in a rated set.
MaxReps == 3

\* A rep as the bar-movement path scores it, of average speed v.
ScoredRep(v) ==
    [avg_velocity |-> RInt(v), max_velocity |-> RInt(v), min_velocity |-> RInt(v),
     tension_score |-> BarTensionScore(RInt(v)), rep_type |-> "bar_movement",
     duration |-> 1000]
\* A rep carrying only velocity and duration fields.
LegacyRep(avg, max, d) ==
    [avg_velocity |-> RInt(avg), max_velocity |-> RInt(max), min_velocity |-> RInt(0),
     duration |-> d]

ScoredReps == { ScoredRep(v) : v \in {0, 100, 1000, 2500} }
LegacyReps == { LegacyRep(a, m, d) : a \in {100, 500}, m \in {500, 1500}, d \in {500, 6000} }

RatingCalls ==
    { [op |-> "calculate_overall_tension_rating", reps |-> rs] :
        rs \in UNION { [1..n -> ScoredReps] : n \in 0..MaxReps }
                 \cup UNION { [1..n -> LegacyReps] : n \in 1..MaxReps } }

InitRating ==
    /\ exercise_params = InitialExerciseParams
    /\ call \in RatingCalls
    /\ reps = call.reps
    /\ pc = "calculate_overall_tension_rating"
    /\ velocities = << >>
    /\ velocity_threshold = 0 /\ min_rep_duration = 0 /\ min_rest_duration = 0
    /\ i = 1
    /\ in_rep = FALSE
    /\ rep_start_idx = 0
    /\ last_rep_end_time = 0
    /\ candidates = << >>
    /\ result = NoResult
    /\ params = None /\ smoothed_velocities = << >>
    /\ tension_rating = None /\ pose_data = None /\ log = << >>
    /\ runs = << >>

NextRating == RateNoReps \/ RateScoredReps \/ RateLegacyReps

\* One call of calculate_overall_tension_rating.
SpecRating == InitRating /\ [][NextRating]_vars

(***************************************************************************)
(* Calls of _smooth_velocity_data                                          *)
(***************************************************************************)
\* Longest stream smoothed and largest window.
MaxSmoothLen == 5
MaxWindow == 4

\* Sample k carries its own frame index, timestamp and position.
SmoothStream(speeds) ==
    [k \in 1..Len(speeds) |->
        [frame |-> k + 7, timestamp |-> k * 100, velocity |-> RInt(speeds[k]),
         position |-> << k, 2 * k, 0 >>]]

SmoothCalls ==
    { [op |-> "_smooth_velocity_data", velocities |-> SmoothStream(sp), window_size |-> w] :
        sp \in UNION { [1..n -> {0, 30, 90}] : n \in 0..MaxSmoothLen }, w \in 1..MaxWindow }

(***************************************************************************)
(* Calls of calculate_rep_tension_score                                    *)
(***************************************************************************)
\* Steps of the grid of average speeds (0.25 units/s each) and durations (1.5 s each).
MaxGrid == 5

\* Reps as the threshold path hands them to the scorer: max_velocity >= avg_velocity.
ScoreInputs ==
    { LegacyRep(250 * a, 250 * a + m, 1500 * d) :
        a \in 0..MaxGrid, m \in {0, 500}, d \in 0..MaxGrid }

ScoreCalls == { [op |-> "calculate_rep_tension_score", rep_data |-> r] : r \in ScoreInputs }

(***************************************************************************)
(* Calls of calculate_joint_velocities and of analyze_video                *)
(***************************************************************************)
\* Most frames of a landmark stream handed to the extractor / of a video.
MaxFrames == 3
MaxPoseFrames == 5

Position(y) == [x |-> 0, y |-> y, z |-> 0, visibility |-> 1]
Point(x, y, z) == [x |-> x, y |-> y, z |-> z, visibility |-> 1]
\* Two places of the tracked joint, 0.1 units apart.
JointPlaces == { Point(0, 0, 0), Point(60, 80, 0) }

\* The landmarks a caller may hand to the extractor: the wrist missing, or mapped
\* to one position, or to a left and a right position.
FrameLandmarks ==
    { [j \in {"elbow"} |-> << Position(0), Position(0) >>] }
      \cup { [j \in {"wrist"} |-> << p >>] : p \in JointPlaces }
      \cup { [j \in {"wrist"} |-> << p, Position(0) >>] : p \in JointPlaces }

\* A caller's frame stream: frame k (from 0) at step dt (0: one timestamp repeated;
\* negative: timestamps running backwards).
PoseFrames(lms, dt) ==
    [k \in 1..Len(lms) |->
        [frame_number |-> k - 1, timestamp |-> (k - 1) * dt, landmarks |-> lms[k]]]

ExtractCalls ==
    { [op |-> "calculate_joint_velocities", pose_data |-> PoseFrames(lms, dt),
       joint_name |-> "wrist", side |-> sd] :
        lms \in UNION { [1..n -> FrameLandmarks] : n \in 0..MaxFrames },
        dt \in {-100, 0, 100}, sd \in {"left", "right"} }

\* PoseDetector.key_joints: every detected frame maps each of these to two positions.
KeyJoints == {"shoulder", "elbow", "wrist", "hip", "knee", "ankle"}
DetectedLandmarks(y) == [j \in KeyJoints |-> << Position(y), Position(0) >>]

\* What detect_pose returns for a frame: None, or the landmarks found.
DetectPoseResults ==
    { None } \cup { [landmarks |-> DetectedLandmarks(y)] : y \in {0, 100, 200} }

\* The videos analysed: a file that does not open; videos at 1 or at 10 frames per
\* second, with or without a pose in each frame; one-frame videos reporting 0 fps.
Videos ==
    { [opened |-> FALSE, fps |-> 0, frames |-> << >>] }
      \cup { [opened |-> TRUE, fps |-> f, frames |-> fr] :
               fr \in UNION { [1..n -> DetectPoseResults] : n \in 0..MaxPoseFrames },
               f \in {1, 10} }
      \cup { [opened |-> TRUE, fps |-> 0, frames |-> fr] : fr \in [1..1 -> DetectPoseResults] }

\* One pull and release, filmed whole or with no pose found in one further frame.
PullAndRelease == [k \in 1..5 |-> [landmarks |-> DetectedLandmarks(<< 0, 0, 100, 200, 0 >>[k])]]
GappedVideos ==
    { [opened |-> TRUE, fps |-> f,
       frames |-> SubSeq(PullAndRelease, 1, p) \o << None >> \o SubSeq(PullAndRelease, p + 1, 5)] :
        p \in 0..5, f \in {1, 10} }

AnalyzeCalls ==
    { [op |-> "analyze_video", video |-> v, joint_name |-> j, side |-> sd,
       exercise_type |-> e] :
        v \in Videos \cup GappedVideos, j \in {"wrist", "nose"}, sd \in {"left", "right"},
        e \in {"lat_pulldown", "default"} }

InitIdle ==
    /\ exercise_params = InitialExerciseParams
    /\ velocities = << >>
    /\ velocity_threshold = 0 /\ min_rep_duration = 0 /\ min_rest_duration = 0
    /\ i = 1
    /\ in_rep = FALSE
    /\ rep_start_idx = 0
    /\ last_rep_end_time = 0
    /\ reps = << >>
    /\ candidates = << >>
    /\ result = NoResult
    /\ params = None /\ smoothed_velocities = << >>
    /\ tension_rating = None /\ pose_data = None /\ log = << >>
    /\ runs = << >>

InitScore ==
    /\ InitIdle
    /\ call \in ScoreCalls
    /\ pc = "calculate_rep_tension_score"

NextScore == ScoreRep

\* One call of calculate_rep_tension_score.
SpecScore == InitScore /\ [][NextScore]_vars

InitSmooth ==
    /\ exercise_params = InitialExerciseParams
    /\ call \in SmoothCalls
    /\ velocities = call.velocities
    /\ pc = "_smooth_velocity_data"
    /\ velocity_threshold = 0 /\ min_rep_duration = 0 /\ min_rest_duration = 0
    /\ i = 1
    /\ in_rep = FALSE
    /\ rep_start_idx = 0
    /\ last_rep_end_time = 0
    /\ reps = << >>
    /\ candidates = << >>
    /\ result = NoResult
    /\ params = None /\ smoothed_velocities = << >>
    /\ tension_rating = None /\ pose_data = None /\ log = << >>
    /\ runs = << >>

NextSmooth == SmoothTooShort \/ SmoothAverage

\* One call of _smooth_velocity_data.
SpecSmooth == InitSmooth /\ [][NextSmooth]_vars

InitExtract ==
    /\ InitIdle
    /\ call \in ExtractCalls
    /\ pc = "calculate_joint_velocities"

NextExtract == ExtractReturns \/ ExtractRaises

\* One call of calculate_joint_velocities.
SpecExtract == InitExtract /\ [][NextExtract]_vars

InitAnalyze ==
    /\ InitIdle
    /\ call \in AnalyzeCalls
    /\ pc = "analyze_video"

NextAnalyze ==
    \/ AnalyzeNoPose \/ AnalyzePoseRaises \/ AnalyzePoseDetected \/ AnalyzeVelocities
    \/ AnalyzeNoReps \/ AnalyzeRepsDetected \/ AnalyzeRating \/ AnalyzeCompile

\* One run of analyze_video on a video.
SpecAnalyze == InitAnalyze /\ [][NextAnalyze]_vars

(***************************************************************************)
(* Two runs sharing one VelocityCalculator                                 *)
(***************************************************************************)
\* Longest free position series of a shared run.
MaxSharedLen == 2

SharedCalls ==
    { [op |-> "detect_reps", exercise_type |-> e, velocities |-> BarStream(ys, "saw"),
       reps |-> << >>] :
        e \in {"lat_pulldown", "zumba"},
        ys \in {ScenarioPositions}
                 \cup UNION { [1..n -> {0, 1000}] : n \in 0..MaxSharedLen } }
    \cup
    { [op |-> "calculate_overall_tension_rating", exercise_type |-> "default",
       velocities |-> << >>, reps |-> rs] :
        rs \in { << >>, << ScoredRep(100), ScoredRep(1000) >>, << LegacyRep(100, 500, 500) >> } }

\* A run at the entry of its call.
NewRun(c) ==
    [pc |-> c.op, call |-> c, velocities |-> c.velocities, reps |-> c.reps,
     params |-> None, smoothed_velocities |-> << >>, result |-> NoResult,
     overlapped |-> FALSE]

InitShared ==
    /\ exercise_params = InitialExerciseParams
    /\ runs \in { << NewRun(c1), NewRun(c2) >> : c1 \in SharedCalls, c2 \in SharedCalls }
    /\ call = NoCall
    /\ pc = "shared"
    /\ velocities = << >>
    /\ velocity_threshold = 0 /\ min_rep_duration = 0 /\ min_rest_duration = 0
    /\ i = 1
    /\ in_rep = FALSE
    /\ rep_start_idx = 0
    /\ last_rep_end_time = 0
    /\ reps = << >>
    /\ candidates = << >>
    /\ result = NoResult
    /\ params = None /\ smoothed_velocities = << >>
    /\ tension_rating = None /\ pose_data = None /\ log = << >>

NextShared ==
    \E r \in 1..2 :
        \/ RunDetectEmpty(r) \/ RunDetectPrepare(r) \/ RunDetectBarMovement(r)
        \/ RunDetectFallOffEnd(r) \/ RunRate(r)

\* Two calls on one instance, their steps interleaved in any order.
SpecShared == InitShared /\ [][NextShared]_vars

(***************************************************************************)
(* Calls of detect_reps_from_bar_movement                                  *)
(***************************************************************************)
\* Most movements (position changes) of a series.
MaxMoves == 6

\* A frame's displacement: a clear pull, a drift within the 0.005 start
\* threshold either way, a pause, a clear release.
Moves == {1000, 4, 0, -4, -1000}

\* The positions reached from `from` by the displacements mv.
RECURSIVE PositionsFrom(_, _)
PositionsFrom(from, mv) ==
    IF mv = << >> THEN << from >>
    ELSE << from >> \o PositionsFrom(from + Head(mv), Tail(mv))

BarCalls ==
    { [op |-> "detect_reps_from_bar_movement", moves |-> mv,
       velocities |-> BarStream(PositionsFrom(0, mv), "saw")] :
        mv \in UNION { [1..n -> Moves] : n \in 0..MaxMoves } }

InitBar ==
    /\ exercise_params = InitialExerciseParams
    /\ call \in BarCalls
    /\ velocities = call.velocities
    /\ pc = "detect_reps_from_bar_movement"
    /\ velocity_threshold = 0 /\ min_rep_duration = 0 /\ min_rest_duration = 0
    /\ i = 1
    /\ in_rep = FALSE
    /\ rep_start_idx = 0
    /\ last_rep_end_time = 0
    /\ reps = << >>
    /\ candidates = << >>
    /\ result = NoResult
    /\ params = None /\ smoothed_velocities = << >>
    /\ tension_rating = None /\ pose_data = None /\ log = << >>
    /\ runs = << >>

NextBar == BarMovementDetect

\* One call of detect_reps_from_bar_movement.
SpecBar == InitBar /\ [][NextBar]_vars

(***************************************************************************)
(* Calls of _is_significant_movement                                       *)
(***************************************************************************)
\* Longest candidate interval.
MaxRepLen == 6

\* Speeds in 64ths of a unit per second (sums and means of these are exact in
\* binary floating point): 1/64 is below the 0.03 range, 2/64 and 8/64 above it.
SixtyFourths(cs) ==
    [k \in 1..Len(cs) |->
        [frame |-> k, timestamp |-> (k - 1) * 100, velocity |-> Rat(125 * cs[k], 8),
         position |-> << 0, 0, 0 >>]]

SignificantCalls ==
    { [op |-> "_is_significant_movement", velocities |-> SixtyFourths(cs)] :
        cs \in UNION { [1..n -> {0, 1, 2, 8}] : n \in 0..MaxRepLen } }
    \cup
    \* A range of exactly 0.03.
    { [op |-> "_is_significant_movement", velocities |-> Stream(sp, 100, 0)] :
        sp \in [1..3 -> {0, 30}] }

InitSignificant ==
    /\ exercise_params = InitialExerciseParams
    /\ call \in SignificantCalls
    /\ velocities = call.velocities
    /\ pc = "_is_significant_movement"
    /\ velocity_threshold = 0 /\ min_rep_duration = 0 /\ min_rest_duration = 0
    /\ i = 1
    /\ in_rep = FALSE
    /\ rep_start_idx = 0
    /\ last_rep_end_time = 0
    /\ reps = << >>
    /\ candidates = << >>
    /\ result = NoResult
    /\ params = None /\ smoothed_velocities = << >>
    /\ tension_rating = None /\ pose_data = None /\ log = << >>
    /\ runs = << >>

NextSignificant ==
    \/ SignificantEmpty \/ SignificantFlat \/ SignificantShort
    \/ SignificantNoPeak \/ SignificantPeak

\* One call of _is_significant_movement.
SpecSignificant == InitSignificant /\ [][NextSignificant]_vars

(***************************************************************************)
(* Properties of the threshold segmenter                                   *)
(***************************************************************************)
Done == pc = "done"
StreamMin == RMinSeq(Speeds(velocities))
StreamMax == RMaxSeq(Speeds(velocities))
RepWellFormed(r) ==
    /\ r.start_time < r.end_time
    /\ RLeq(StreamMin, r.avg_velocity)
    /\ RLeq(r.avg_velocity, StreamMax)

\* Cycle k of a wave call c occupies the samples CycleFirst .. CycleLast.
CycleFirst(c, k) == c.L + (k - 1) * (2 * c.U + 1 + c.G) + 1
CycleLast(c, k) == CycleFirst(c, k) + 2 * c.U
WavePeak(c) == c.lo + c.U * c.s
\* The first sample of cycle k above the threshold, and the first one after it
\* below the threshold (0 when there is none).
CycleStart(c, k) ==
    LET above == { j \in CycleFirst(c, k)..CycleLast(c, k) :
                     RLt(RInt(c.velocity_threshold), c.velocities[j].velocity) }
    IN  IF above = {} THEN 0 ELSE CHOOSE j \in above : \A j2 \in above : j <= j2
CycleEnd(c, k) ==
    LET below == { j \in (CycleStart(c, k) + 1)..CycleLast(c, k) :
                     RLt(c.velocities[j].velocity, RInt(c.velocity_threshold)) }
    IN  IF CycleStart(c, k) = 0 \/ below = {} THEN 0
        ELSE CHOOSE j \in below : \A j2 \in below : j <= j2

\* The wave as the specification words it: peaks above and troughs below the
\* threshold, every cycle (trough to trough) at least min_rep_duration long, the
\* cycles (and the first cycle from the start of the stream) at least
\* min_rest_duration apart.
WaveAsSpecified(c) ==
    /\ WavePeak(c) > c.velocity_threshold
    /\ c.lo < c.velocity_threshold
    /\ 2 * c.U * c.dt >= c.min_rep_duration
    /\ c.G * c.dt >= c.min_rest_duration
    /\ c.L * c.dt >= c.min_rest_duration

\* The wave as the code needs it: what must last min_rep_duration is the interval
\* from a cycle's first sample above the threshold to its first sample below it,
\* that interval must be a significant movement, and its first sample must come
\* min_rest_duration after the previous interval's last (after time 0 for the first).
WaveAsSegmented(c) ==
    /\ WavePeak(c) > c.velocity_threshold
    /\ c.lo < c.velocity_threshold
    /\ \A k \in 1..c.N :
         LET st == CycleStart(c, k)
             en == CycleEnd(c, k)
             v  == c.velocities
         IN  /\ st # 0 /\ en # 0
             /\ v[en].timestamp - v[st].timestamp >= c.min_rep_duration
             /\ IsSignificantMovement(SubSeq(v, st, en))
             /\ v[st].timestamp
                  - (IF k = 1 THEN 0 ELSE v[CycleEnd(c, k - 1)].timestamp)
                  >= c.min_rest_duration

\* C2 as stated: a triangular wave of N cycles, each at least min_rep_duration
\* long and min_rest_duration apart, is segmented into exactly N well-formed reps.
C2_WaveAsSpecifiedYieldsNReps ==
    (Done /\ call.kind = "wave" /\ WaveAsSpecified(call))
        => /\ Len(reps) = call.N
           /\ \A k \in 1..Len(reps) : RepWellFormed(reps[k])

\* C2 amended: a triangular wave of N cycles is segmented into exactly N reps, rep k
\* running from cycle k's first sample above the threshold to its first sample
\* below it, provided each such interval (not the whole cycle) lasts at least
\* min_rep_duration, is a significant movement, and starts min_rest_duration
\* after the previous one ended (after time 0 for the first); every rep has
\* start_time < end_time and avg_velocity within the stream's speed range.
C2_WaveAsSegmentedYieldsNReps ==
    (Done /\ call.kind = "wave" /\ WaveAsSegmented(call))
        => /\ result = Returned(reps)
           /\ Len(reps) = call.N
           /\ \A k \in 1..Len(reps) :
                /\ reps[k].start_frame = CycleStart(call, k)
                /\ reps[k].end_frame = CycleEnd(call, k)
                /\ RepWellFormed(reps[k])

C2_TwoCycleWaveSegmented ==
    /\ Done /\ call.kind = "wave" /\ WaveAsSegmented(call)
    /\ call.N = 2 /\ Len(reps) = 2

\* C3: on the scenario stream the state machine closes exactly two candidate
\* intervals, both shorter than min_rep_duration, and returns no rep.
C3_ScenarioClosesTwoAcceptsNone ==
    (Done /\ call.kind = "scenario")
        => /\ Len(candidates) = 2
           /\ \A k \in 1..Len(candidates) :
                velocities[candidates[k][2]].timestamp
                  - velocities[candidates[k][1]].timestamp < min_rep_duration
           /\ ~in_rep
           /\ result = Returned(<< >>)

C3_ScenarioRun ==
    /\ Done /\ call.kind = "scenario"
    /\ Len(candidates) = 2 /\ candidates[1][2] < candidates[2][1]

NoSampleExceedsThreshold ==
    \A k \in 1..Len(velocities) : RLeq(velocities[k].velocity, RInt(velocity_threshold))

\* C10: on a stream with no sample above the threshold the state machine is
\* RESTING in every state, closes no interval, and returns the empty sequence.
C10_BelowThresholdStaysResting ==
    NoSampleExceedsThreshold
        => /\ ~in_rep
           /\ candidates = << >>
           /\ reps = << >>
           /\ (Done => result = Returned(<< >>))

C10_QuietStreamSegmented ==
    /\ Done /\ NoSampleExceedsThreshold
    /\ Len(velocities) >= 3
    /\ \E k \in 1..Len(velocities) : velocities[k].velocity = RInt(velocity_threshold)
    /\ \E k \in 1..Len(velocities) : velocities[k].velocity = RInt(0)

(***************************************************************************)
(* Properties of detect_reps and of the bar-movement matcher               *)
(***************************************************************************)
DetectDone == Done /\ call.op = "detect_reps"

\* C1: for a non-empty stream detect_reps returns a sequence of reps, the
\* bar-movement matcher's for lat_pulldown and the threshold state machine's for
\* every other key.
C1_DetectRepsRunsOneAlgorithm ==
    (DetectDone /\ velocities # << >>)
        => IF call.exercise_type = "lat_pulldown"
           THEN result = Returned(DetectRepsFromBarMovement(smoothed_velocities))
           ELSE result = Returned(DetectRepsCore(smoothed_velocities, velocity_threshold,
                                                 min_rep_duration, min_rest_duration))

YsOf(vs) == [k \in 1..Len(vs) |-> BarPosition(vs[k])]
ScenarioBarRun ==
    /\ DetectDone /\ call.exercise_type = "lat_pulldown"
    /\ YsOf(velocities) = ScenarioPositions

\* C5: on the position series 0,1,2,3,2,1,0 the matcher finds one pull phase of
\* three movements and one release phase of three movements, and emits exactly
\* one rep, from the pull's first frame to the last frame of the series.
C5_ScenarioPositionsYieldOneRep ==
    ScenarioBarRun
        => LET ms == Movements(BarPositions(smoothed_velocities))
               pulls == PullPhases(ms, 1)
               last == velocities[Len(velocities)]
           IN  /\ Len(pulls) = 1
               /\ pulls[1].end_index - pulls[1].start_index + 1 = 3
               /\ ReleaseEnd(ms, pulls[1].end_frame)
                    - ReleaseStart(ms, pulls[1].end_frame) + 1 = 3
               /\ result.tag = "returned" /\ Len(result.value) = 1
               /\ result.value[1].start_frame = pulls[1].start_frame
               /\ result.value[1].start_time = pulls[1].start_time
               /\ result.value[1].end_frame = last.frame
               /\ result.value[1].end_time = last.timestamp
               /\ result.value[1].rep_type = "bar_movement"

C5_ScenarioBarRep ==
    ScenarioBarRun /\ Len(reps) = 1 /\ reps[1].start_frame < reps[1].end_frame

\* C9: a key absent from the registry raises nothing, is served with exactly the
\* 'default' profile's parameters, and returns what exercise_type='default' returns.
C9_UnknownKeyUsesDefaultProfile ==
    (DetectDone /\ call.exercise_type \notin DOMAIN exercise_params)
        => /\ result.tag # "raised"
           /\ result = DetectRepsValue(exercise_params, velocities, "default")
           /\ velocities # << >> =>
                LET d == exercise_params["default"]
                IN  /\ params = d
                    /\ velocity_threshold = OrDefault(call.velocity_threshold, d.velocity_threshold)
                    /\ min_rep_duration = d.min_rep_duration
                    /\ min_rest_duration = d.min_rest_duration
                    /\ smoothed_velocities = SmoothVelocityData(velocities, d.smoothing_window)

C9_UnknownKeyCall ==
    /\ DetectDone /\ call.exercise_type \notin DOMAIN exercise_params
    /\ Len(velocities) >= 3 /\ params = exercise_params["default"]

(***************************************************************************)
(* Properties of the tension scorer                                        *)
(***************************************************************************)
RatingDone == Done /\ call.op = "calculate_overall_tension_rating"

\* C4: the overall rating of a non-empty rep sequence lies in [0, 100].
C4_RatingWithinZeroAndHundred ==
    (RatingDone /\ reps # << >>)
        => /\ RLeq(RInt(0), tension_rating)
           /\ RLeq(tension_rating, RInt(100))

(***************************************************************************)
(* Properties of the velocity extractor and of analyze_video               *)
(***************************************************************************)
ExtractDone == Done /\ call.op = "calculate_joint_velocities"

\* The requested joint and side is present in frame f.
HasJointSide(f, joint_name, side) ==
    /\ joint_name \in DOMAIN f.landmarks
    /\ JointIdx(side) <= Len(f.landmarks[joint_name])

\* C8: the extractor raises nothing on frames that lack the requested joint or
\* side, and returns the empty sequence when the joint/side never appears.
C8_MissingJointSideNeverRaises ==
    ExtractDone
        => /\ result.tag = "returned"
           /\ (\A k \in 1..Len(call.pose_data) :
                 ~HasJointSide(call.pose_data[k], call.joint_name, call.side))
                => result.value = << >>

AnalyzeDone == Done /\ call.op = "analyze_video"
IsErrorReport(r) ==
    /\ r.success = FALSE
    /\ r.error # ""
    /\ r.tension_rating = RInt(0)
    /\ r.rep_count = 0
    /\ r.reps = << >>
Logged(step) == \E k \in 1..Len(log) : log[k] = step

\* C7: when process_video returned no frame, or step 2 computed no velocity sample,
\* or step 3 detected no rep, analyze_video returns (does not raise) a success=false report with
\* a message, rating 0, rep_count 0 and no reps, and neither scoring nor the report
\* compilation has run.
C7_EmptyStageYieldsErrorReport ==
    (AnalyzeDone /\ (\/ pose_data = << >>
                     \/ Logged("Step 2: Calculating velocities...") /\ velocities = << >>
                     \/ Logged("Step 3: Detecting repetitions...") /\ reps = << >>))
        => /\ result.tag = "returned"
           /\ IsErrorReport(result.value)
           /\ tension_rating = None
           /\ ~Logged("Step 4: Calculating tension rating...")
           /\ ~Logged("Analysis complete!")

C7_NoRepsReported ==
    /\ AnalyzeDone /\ velocities # << >> /\ reps = << >>
    /\ call.exercise_type = "lat_pulldown"
    /\ result.value.error = "No repetitions detected. Try recording a full set."


(***************************************************************************)
(* Properties of calculate_rep_tension_score                               *)
(***************************************************************************)
ScoreDone == Done /\ call.op = "calculate_rep_tension_score"
SameExcept(r, q, field) ==
    \A f \in {"avg_velocity", "max_velocity", "duration"} \ {field} : r[f] = q[f]

\* C11: the per-rep score lies in [0, 100], does not rise when avg_velocity rises
\* with duration and max_velocity fixed, and does not fall when duration rises
\* with avg_velocity and max_velocity fixed.
C11_RepScoreMonotoneAndBounded ==
    ScoreDone
        => /\ result.tag = "returned"
           /\ RLeq(RInt(0), result.value) /\ RLeq(result.value, RInt(100))
           /\ \A q \in ScoreInputs :
                /\ (SameExcept(call.rep_data, q, "avg_velocity")
                      /\ RLeq(call.rep_data.avg_velocity, q.avg_velocity))
                     => RLeq(RepTensionScore(q), result.value)
                /\ (SameExcept(call.rep_data, q, "duration")
                      /\ call.rep_data.duration <= q.duration)
                     => RLeq(result.value, RepTensionScore(q))

C11_FasterRepScoresLower ==
    /\ ScoreDone
    /\ RLt(RInt(0), result.value) /\ RLt(result.value, RInt(100))
    /\ \E q \in ScoreInputs :
         /\ SameExcept(call.rep_data, q, "avg_velocity")
         /\ RLt(call.rep_data.avg_velocity, q.avg_velocity)
         /\ RLt(RepTensionScore(q), result.value)
    /\ \E q \in ScoreInputs :
         /\ SameExcept(call.rep_data, q, "duration")
         /\ call.rep_data.duration < q.duration
         /\ RLt(result.value, RepTensionScore(q))

(***************************************************************************)
(* Properties of the samples the extractor emits                           *)
(***************************************************************************)
\* The indices k of the adjacent pairs (k-1, k) whose frames both hold the joint.
JointPairs(pose, joint_name) ==
    { k \in 2..Len(pose) : /\ joint_name \in DOMAIN pose[k - 1].landmarks
                           /\ joint_name \in DOMAIN pose[k].landmarks }

\* C12: the extractor returns, in input order, exactly one sample per adjacent
\* pair of frames that both contain the joint, stamped with the later frame's
\* index and timestamp, and nothing for any other pair; at most len-1 samples.
C12_OneSamplePerJointPair ==
    ExtractDone
        => LET pose == call.pose_data
               pairs == JointPairs(pose, call.joint_name)
           IN  /\ result.tag = "returned"
               /\ Len(result.value) = Cardinality(pairs)
               /\ Len(pose) > 0 => Len(result.value) <= Len(pose) - 1
               /\ \A k \in pairs :
                    \E j \in 1..Len(result.value) :
                        /\ result.value[j].frame = pose[k].frame_number
                        /\ result.value[j].timestamp = pose[k].timestamp
               /\ \A j \in 1..(Len(result.value) - 1) :
                    result.value[j].frame < result.value[j + 1].frame

\* The index of the frame sample smp was computed for.
FrameOf(pose, smp) == CHOOSE k \in 2..Len(pose) : pose[k].frame_number = smp.frame
SquaredDistance(p, q) ==
    (q.x - p.x) * (q.x - p.x) + (q.y - p.y) * (q.y - p.y) + (q.z - p.z) * (q.z - p.z)

\* C13: a sample over zero elapsed time has speed 0; any other has speed
\* distance / elapsed time, with the Euclidean distance of the two positions; no
\* division error is raised; with non-decreasing timestamps no speed is negative.
C13_SpeedIsDistanceOverTimeOrZero ==
    ExtractDone
        => /\ result.tag = "raised" => result.exc # "ZeroDivisionError"
           /\ result.tag = "returned" =>
                \A j \in 1..Len(result.value) :
                    LET pose == call.pose_data
                        k == FrameOf(pose, result.value[j])
                        idx == JointIdx(call.side)
                        p == pose[k - 1].landmarks[call.joint_name][idx]
                        q == pose[k].landmarks[call.joint_name][idx]
                        elapsed == pose[k].timestamp - pose[k - 1].timestamp
                        v == result.value[j].velocity
                    IN  /\ elapsed = 0 => v = RInt(0)
                        /\ elapsed # 0 =>
                             \E d \in 0..1000 :
                                 /\ d * d = SquaredDistance(p, q)
                                 /\ RMul(v, RInt(elapsed)) = RInt(1000 * d)
                        /\ elapsed >= 0 => RLeq(RInt(0), v)

C13_MovedInNoTime ==
    /\ ExtractDone /\ result.tag = "returned" /\ Len(result.value) = 2
    /\ call.pose_data[2].timestamp = call.pose_data[1].timestamp
    /\ result.value[1].position # result.value[2].position
    /\ result.value[1].velocity = RInt(0)

(***************************************************************************)
(* Properties of the smoother and of the registry's windows                *)
(***************************************************************************)
SmoothDone == Done /\ call.op = "_smooth_velocity_data"

\* C14: the smoothed stream has the input's length and order, each sample keeps
\* its frame index, timestamp and position, and the input is left as it was.
C14_SmoothingChangesOnlySpeed ==
    SmoothDone
        => /\ result.tag = "returned"
           /\ Len(result.value) = Len(call.velocities)
           /\ \A k \in 1..Len(result.value) :
                /\ result.value[k].frame = call.velocities[k].frame
                /\ result.value[k].timestamp = call.velocities[k].timestamp
                /\ result.value[k].position = call.velocities[k].position
                /\ DOMAIN result.value[k] = DOMAIN call.velocities[k]
           /\ velocities = call.velocities

C14_SpeedsSmoothed ==
    /\ SmoothDone /\ Len(velocities) >= 3 /\ call.window_size = 3
    /\ \A k \in 1..Len(velocities) : result.value[k].velocity # velocities[k].velocity

\* Sample k's whole window exists: window_size // 2 neighbours on either side.
Interior(k, n, window_size) ==
    k - window_size \div 2 >= 1 /\ k + window_size \div 2 <= n

\* C15: a stream shorter than window_size is returned unchanged; otherwise
\* smoothed speed k is the mean of the raw speeds of the window centred on k and
\* cut at the ends of the stream, an interior sample's window holding exactly
\* window_size samples and a window of 1 changing nothing.
C15_CentredWindowOfWindowSize ==
    SmoothDone
        => LET n == Len(velocities)
               w == call.window_size
               h == w \div 2
           IN  IF n < w THEN result.value = velocities
               ELSE \A k \in 1..n :
                      /\ result.value[k].velocity
                           = Mean(Speeds(SubSeq(velocities, Max(1, k - h), Min(n, k + h))))
                      /\ Interior(k, n, w) => Len(SmoothingWindow(velocities, k - 1, w)) = w
                      /\ w = 1 => result.value[k].velocity = velocities[k].velocity

\* n^2 times the variance of the rationals xs: n * sum(x^2) - (sum x)^2.
ScaledVariance(xs) ==
    RSub(RMul(RInt(Len(xs)), RSumSeq([k \in 1..Len(xs) |-> RMul(xs[k], xs[k])])),
         RMul(RSumSeq(xs), RSumSeq(xs)))

\* The sub-window a..b on which smoothing raised the variance.
VarianceRaised(a, b) ==
    RLt(ScaledVariance(Speeds(SubSeq(velocities, a, b))),
        ScaledVariance(Speeds(SubSeq(result.value, a, b))))

\* C17 as stated: for a window above 1 the variance of the smoothed speeds over
\* any contiguous sub-window is at most that of the raw speeds over it.
C17_VarianceNeverRaised ==
    (SmoothDone /\ call.window_size > 1)
        => \A a \in 1..Len(velocities) : \A b \in a..Len(velocities) : ~VarianceRaised(a, b)

\* C17 as the smoother behaves: for a window above 1, over any contiguous
\* sub-window a..b every smoothed speed lies between the least and the greatest
\* raw speed of a-h..b+h (h = window_size // 2, cut at the ends of the stream).
C17_SmoothedWithinRawRange ==
    (SmoothDone /\ call.window_size > 1)
        => LET n == Len(velocities)
               h == call.window_size \div 2
           IN  \A a \in 1..n : \A b \in a..n :
                 LET raw == Speeds(SubSeq(velocities, Max(1, a - h), Min(n, b + h)))
                 IN  \A k \in a..b :
                       /\ RLeq(RMinSeq(raw), result.value[k].velocity)
                       /\ RLeq(result.value[k].velocity, RMaxSeq(raw))

C17_FlatStretchRoughened ==
    /\ SmoothDone /\ call.window_size = 3 /\ Len(velocities) >= 3
    /\ velocities[1].velocity = velocities[2].velocity
    /\ VarianceRaised(1, 2)

\* C16: every profile of the registry has an odd smoothing_window >= 1 and
\* positive threshold and durations, and detect_reps smooths with an odd window.
C16_RegistryWindowsOdd ==
    /\ \A e \in DOMAIN exercise_params :
         /\ exercise_params[e].smoothing_window >= 1
         /\ exercise_params[e].smoothing_window % 2 = 1
         /\ exercise_params[e].velocity_threshold > 0
         /\ exercise_params[e].min_rep_duration > 0
         /\ exercise_params[e].min_rest_duration > 0
    /\ (call.op = "detect_reps" /\ params # None) => params.smoothing_window % 2 = 1

(***************************************************************************)
(* The threshold state machine: transitions and emitted reps               *)
(***************************************************************************)
\* The step handling sample i of the stream.
AtSample == pc = "core_loop" /\ i <= Len(velocities)
AboveThreshold(k) ==
    velocities[k].velocity.num > velocity_threshold * velocities[k].velocity.den
BelowThreshold(k) ==
    velocities[k].velocity.num < velocity_threshold * velocities[k].velocity.den

\* C19: the machine starts resting; at sample i it goes from resting to in-rep
\* exactly when the speed is above the threshold and at least min_rest_duration
\* has passed since last_rep_end_time, recording i as the rep start; it goes from
\* in-rep to resting exactly when the speed is below the threshold; any other
\* sample (speed equal to the threshold, too little rest) changes neither the
\* state nor the recorded start.
C19_TwoTransitions ==
    /\ in_rep = FALSE
    /\ [][ AtSample =>
             /\ (~in_rep /\ in_rep')
                  <=> /\ ~in_rep /\ AboveThreshold(i)
                      /\ velocities[i].timestamp - last_rep_end_time >= min_rest_duration
             /\ (~in_rep /\ in_rep') => rep_start_idx' = i
             /\ (in_rep /\ ~in_rep') <=> (in_rep /\ BelowThreshold(i))
             /\ (in_rep' = in_rep) => rep_start_idx' = rep_start_idx ]_vars

C19_ThresholdSpeedInsideRep ==
    /\ pc = "core_loop" /\ in_rep /\ i >= 3
    /\ rep_start_idx < i - 1
    /\ velocities[i - 1].velocity = RInt(velocity_threshold)

\* Candidate <<s, e>> passes the duration test and the significant-movement test.
CandidatePasses(c) ==
    /\ velocities[c[2]].timestamp - velocities[c[1]].timestamp >= min_rep_duration
    /\ IsSignificantMovement(SubSeq(velocities, c[1], c[2]))
RepOfCandidate(r, c) ==
    /\ r.start_frame = velocities[c[1]].frame /\ r.end_frame = velocities[c[2]].frame
    /\ r.start_time = velocities[c[1]].timestamp /\ r.end_time = velocities[c[2]].timestamp

\* C20: every rep emitted by the threshold state machine has end_time >
\* start_time and duration = timestamp[end] - timestamp[start] >=
\* min_rep_duration over an interval that is a significant movement, and a closed
\* candidate failing the duration test or the significance test emits no rep.
C20_RepsAreTheAcceptedCandidates ==
    /\ \A k \in 1..Len(reps) :
         /\ reps[k].end_time > reps[k].start_time
         /\ reps[k].duration = reps[k].end_time - reps[k].start_time
         /\ reps[k].duration >= min_rep_duration
         /\ \E c \in 1..Len(candidates) :
              RepOfCandidate(reps[k], candidates[c]) /\ CandidatePasses(candidates[c])
    /\ \A c \in 1..Len(candidates) :
         ~CandidatePasses(candidates[c])
            => ~\E k \in 1..Len(reps) : RepOfCandidate(reps[k], candidates[c])

C20_OneEmittedOneDiscarded ==
    /\ Done /\ call.op = "_detect_reps_core"
    /\ Len(reps) = 1 /\ Len(candidates) = 2
    /\ ~CandidatePasses(candidates[2])

(***************************************************************************)
(* Properties of runs that share one instance                              *)
(***************************************************************************)
\* What call c returns when run alone on a fresh instance.
AloneResult(c) ==
    IF c.op = "detect_reps"
    THEN DetectRepsValue(InitialExerciseParams, c.velocities, c.exercise_type)
    ELSE Returned(OverallTensionRating(c.reps))

\* C18: whatever the interleaving of two runs on one VelocityCalculator, the
\* registry keeps its initial content, each run's input sequences stay as they
\* were passed, and a finished run has returned what its call returns alone on a
\* fresh instance.
C18_SharedRunsDoNotInterfere ==
    /\ exercise_params = InitialExerciseParams
    /\ \A r \in DOMAIN runs :
         /\ runs[r].velocities = runs[r].call.velocities
         /\ runs[r].reps = runs[r].call.reps
         /\ runs[r].pc = "done" => runs[r].result = AloneResult(runs[r].call)

C18_OverlappingRunsFinished ==
    /\ pc = "shared"
    /\ runs[1].pc = "done" /\ runs[2].pc = "done"
    /\ runs[1].overlapped /\ runs[2].overlapped
    /\ runs[1].call.exercise_type = "zumba" /\ runs[2].call.exercise_type = "lat_pulldown"
    /\ runs[2].result.tag = "returned" /\ Len(runs[2].result.value) = 1

(***************************************************************************)
(* Properties of the bar-movement matcher                                  *)
(***************************************************************************)
BarDone == Done /\ call.op = "detect_reps_from_bar_movement"

\* C21: the reps the bar-movement matcher emits are pairwise non-overlapping: a
\* later rep starts at a frame after the earlier rep's end frame, so no release
\* phase closes two reps.
C21_BarRepsDoNotOverlap ==
    BarDone
        => \A a \in 1..Len(reps) : \A b \in (a + 1)..Len(reps) :
              reps[b].start_frame > reps[a].end_frame

(***************************************************************************)
(* Properties of the significant-movement predicate                        *)
(***************************************************************************)
SignificantDone == Done /\ call.op = "_is_significant_movement"
SpeedRange(vs) == RSub(RMaxSeq(Speeds(vs)), RMinSeq(Speeds(vs)))
\* The mean speed of samples a..b is strictly greater than x.
MeanAbove(vs, a, b, x) == RLt(x, Mean(Speeds(SubSeq(vs, a, b))))

\* The middle third's mean speed is strictly greater than the first third's and
\* the last third's.
PeakedByThirds(vs) ==
    LET v == Speeds(vs)
    IN  /\ RLt(Mean(FirstThird(v)), Mean(MiddleThird(v)))
        /\ RLt(Mean(LastThird(v)), Mean(MiddleThird(v)))

\* C22 as stated: a candidate is accepted iff it has at least 3 samples, a speed
\* range of at least 0.03, and a middle third whose mean speed is strictly
\* greater than the means of the first and of the last third.
C22_AcceptsIffPeakedByThirds ==
    SignificantDone
        => (result = Returned(TRUE)
              <=> /\ Len(velocities) >= 3
                  /\ RLeq(RInt(30), SpeedRange(velocities))
                  /\ PeakedByThirds(velocities))

\* The peak test as the predicate makes it on n samples: below 6 samples the mean
\* of all samples against the first and the last sample; from 6 samples on, with
\* q = (n // 2) // 2, the mean of samples q+1 .. n//2 + q against the mean of
\* the first q and the mean of the remaining last samples.
PeakedByQuarters(vs) ==
    LET n == Len(vs)
        q == (n \div 2) \div 2
    IN  IF n < 6
        THEN /\ MeanAbove(vs, 1, n, vs[1].velocity)
             /\ MeanAbove(vs, 1, n, vs[n].velocity)
        ELSE /\ MeanAbove(vs, q + 1, n \div 2 + q, Mean(Speeds(SubSeq(vs, 1, q))))
             /\ MeanAbove(vs, q + 1, n \div 2 + q,
                          Mean(Speeds(SubSeq(vs, n \div 2 + q + 1, n))))

\* C22 amended: a candidate is accepted iff it has at least 3 samples, a speed
\* range of at least 0.03, and a clear peak by the quarter/half/quarter split
\* (first sample / all samples / last sample below 6 samples).
C22_AcceptsIffPeakedByQuarters ==
    SignificantDone
        => /\ result.tag = "returned"
           /\ result.value
                <=> /\ Len(velocities) >= 3
                    /\ RLeq(RInt(30), SpeedRange(velocities))
                    /\ PeakedByQuarters(velocities)

C22_PeakedThirdsRejected ==
    /\ SignificantDone /\ result = Returned(FALSE)
    /\ Len(velocities) = 6
    /\ RLeq(RInt(30), SpeedRange(velocities))
    /\ PeakedByThirds(velocities)

\* The movements of the finished call, and the index of the movement at a frame.
BarMoves == Movements(BarPositions(velocities))
MoveAt(frame) == CHOOSE k \in 1..Len(BarMoves) : BarMoves[k].frame = frame
Movement(k) == BarMoves[k].movement

\* C23 as stated: a rep starts at the first frame of a maximal run of at least
\* two frames with movement > 0.005 (so a frame with 0 < movement <= 0.005 ends
\* the pull phase and a single-frame pull yields no rep) and ends at the last
\* frame of a maximal run with movement < -0.005 (so a frame with
\* -0.005 <= movement < 0 ends the release phase).
C23_PhasesAreRunsBeyondThreshold ==
    BarDone
        => \A r \in 1..Len(reps) :
             LET s == MoveAt(reps[r].start_frame)
                 e == MoveAt(reps[r].end_frame)
             IN  /\ Movement(s) > 5
                 /\ s = 1 \/ Movement(s - 1) <= 5
                 /\ s < Len(BarMoves) /\ Movement(s + 1) > 5
                 /\ Movement(e) < -5
                 /\ e = Len(BarMoves) \/ Movement(e + 1) >= -5

\* Movement s starts a pull phase of the scan: it exceeds 0.005 and no earlier
\* movement above 0.005 is joined to it by positive movements only.
PullStartsAt(s) ==
    /\ Movement(s) > 5
    /\ ~\E j \in 1..(s - 1) : Movement(j) > 5 /\ \A k \in j..s : Movement(k) > 0
\* The pull phase started at s runs through pe, the release found for it from rs
\* through e.
PullReleaseSpan(s, pe, rs, e) ==
    /\ s < pe /\ pe < rs /\ rs <= e
    /\ \A k \in (s + 1)..pe : Movement(k) > 0
    /\ pe = Len(BarMoves) \/ Movement(pe + 1) <= 0
    /\ Movement(rs) < -5
    /\ \A k \in (pe + 1)..(rs - 1) : Movement(k) >= -5
    /\ \A k \in rs..e : Movement(k) < 0
    /\ e = Len(BarMoves) \/ Movement(e + 1) >= 0

\* C23 amended: a pull phase starts at a frame with movement > 0.005 and runs on
\* while movement > 0 (a frame with 0 < movement <= 0.005 continues it, a frame
\* with movement <= 0 ends it); its release phase starts at the first later frame
\* with movement < -0.005 and runs on while movement < 0, the rep ending at the
\* last frame of that run; a pull phase of a single frame yields no rep; and
\* every pull phase of two or more frames with a later release start yields one.
C23_PhasesStartBeyondThresholdRunToZero ==
    BarDone
        => /\ \A r \in 1..Len(reps) :
                LET s == MoveAt(reps[r].start_frame)
                    e == MoveAt(reps[r].end_frame)
                IN  /\ PullStartsAt(s)
                    /\ \E pe \in s..e : \E rs \in pe..e : PullReleaseSpan(s, pe, rs, e)
           /\ \A s \in 1..Len(BarMoves) :
                (/\ PullStartsAt(s)
                 /\ s < Len(BarMoves) /\ Movement(s + 1) > 0
                 /\ \E pe \in s..Len(BarMoves) : \E rs \in pe..Len(BarMoves) :
                      \E e \in rs..Len(BarMoves) : PullReleaseSpan(s, pe, rs, e))
                    <=> \E r \in 1..Len(reps) : MoveAt(reps[r].start_frame) = s

C23_DriftFramesInsidePhases ==
    /\ BarDone /\ Len(reps) = 1
    /\ LET s == MoveAt(reps[1].start_frame)
           e == MoveAt(reps[1].end_frame)
       IN  /\ Movement(s + 1) = 4
           /\ Movement(e) = -4

(***************************************************************************)
(* The threshold state machine: the end of the stream, order and rest      *)
(***************************************************************************)
CoreDone == Done /\ call.op = "_detect_reps_core"
\* The index of the sample at a frame.
SampleAt(frame) == CHOOSE k \in 1..Len(velocities) : velocities[k].frame = frame
EndsBelowThreshold(rep) == BelowThreshold(SampleAt(rep.end_frame))

\* C24: no emitted rep ends at a sample whose speed is at or above the
\* threshold, there are never more emitted reps than in-rep to resting
\* transitions, and when the stream ends inside a rep the call returns the reps
\* emitted so far, none of them for the open interval.
C24_OpenIntervalDiscarded ==
    /\ \A k \in 1..Len(reps) : EndsBelowThreshold(reps[k])
    /\ Len(reps) <= Len(candidates)
    /\ CoreDone =>
         /\ result.tag = "returned"
         /\ Len(result.value) <= Len(candidates)
         /\ \A k \in 1..Len(result.value) : EndsBelowThreshold(result.value[k])
         /\ in_rep => \A k \in 1..Len(result.value) :
                         result.value[k].start_frame # velocities[rep_start_idx].frame

C24_StreamEndedInsideLongRep ==
    /\ CoreDone /\ in_rep
    /\ Len(result.value) = 1
    /\ velocities[Len(velocities)].timestamp - velocities[rep_start_idx].timestamp
         >= min_rep_duration

\* C25: on a stream with strictly increasing timestamps the emitted reps are in
\* order of start_time, and each rep starts at least min_rest_duration after the
\* end of the rep before it, so their intervals are disjoint.
C25_RepsOrderedAndRested ==
    \A k \in 1..(Len(reps) - 1) :
        /\ reps[k].start_time < reps[k + 1].start_time
        /\ reps[k].end_time < reps[k + 1].start_time
        /\ reps[k + 1].start_time - reps[k].end_time >= min_rest_duration

StrictlyIncreasingTimestamps ==
    \A k \in 1..(Len(velocities) - 1) : velocities[k].timestamp < velocities[k + 1].timestamp

C25_SecondRepAfterRefusedStart ==
    /\ CoreDone /\ StrictlyIncreasingTimestamps
    /\ Len(reps) = 2
    /\ \E k \in 1..Len(velocities) :
         /\ reps[1].end_time < velocities[k].timestamp
         /\ velocities[k].timestamp < reps[2].start_time
         /\ AboveThreshold(k)

(***************************************************************************)
(* Properties of the overall rating                                        *)
(***************************************************************************)
AllScored(rs) == \A k \in 1..Len(rs) : "tension_score" \in DOMAIN rs[k]
MeanAvgVelocity(rs, a, b) == Mean([k \in 1..(b - a + 1) |-> rs[a + k - 1].avg_velocity])
MeanTensionScore(rs) == Mean([k \in 1..Len(rs) |-> rs[k].tension_score])
\* min(20, ((first - second) / first) * 50) if first > 0, else 0.
SlowdownBonus(first, second) ==
    IF RLt(RInt(0), first)
    THEN RMin(RInt(20), RMul(RDiv(RSub(first, second), first), RInt(50)))
    ELSE RInt(0)

\* C26: for n >= 2 reps carrying tension_score the rating is
\* min(100, mean(tension_score) + bonus), the bonus computed from the mean
\* avg_velocity of the first floor(n/2) reps and of the remaining reps; for one
\* rep it is that rep's tension_score; for no reps it is 0.
C26_RatingIsMeanPlusSlowdownBonus ==
    (RatingDone /\ AllScored(reps))
        => LET n == Len(reps)
               h == n \div 2
           IN  /\ result = Returned(tension_rating)
               /\ n = 0 => tension_rating = RInt(0)
               /\ n = 1 => tension_rating = reps[1].tension_score
               /\ n >= 2 =>
                    tension_rating
                      = RMin(RInt(100),
                             RAdd(MeanTensionScore(reps),
                                  SlowdownBonus(MeanAvgVelocity(reps, 1, h),
                                                MeanAvgVelocity(reps, h + 1, n))))

C26_BonusCappedAtTwenty ==
    /\ RatingDone /\ AllScored(reps) /\ Len(reps) = 3
    /\ tension_rating = RAdd(MeanTensionScore(reps), RInt(20))
    /\ RLt(tension_rating, RInt(100))
    /\ RLt(RInt(20), RMul(RDiv(RSub(reps[1].avg_velocity,
                                     MeanAvgVelocity(reps, 2, 3)),
                                reps[1].avg_velocity), RInt(50)))

\* C28: the rating of every non-empty rep sequence, with or without
\* tension_score, is a number with one decimal place: ten times it is an integer.
C28_RatingHasOneDecimal ==
    (RatingDone /\ reps # << >>)
        => /\ result = Returned(tension_rating)
           /\ (10 * tension_rating.num) % tension_rating.den = 0

(***************************************************************************)
(* Properties of the reps of the bar-movement path                         *)
(***************************************************************************)
\* The indices of the smoothed samples whose frame lies within the rep.
SamplesWithin(rep) ==
    { k \in 1..Len(smoothed_velocities) :
        /\ rep.start_frame <= smoothed_velocities[k].frame
        /\ smoothed_velocities[k].frame <= rep.end_frame }
RECURSIVE SumOver(_)
SumOver(S) ==
    IF S = {} THEN RInt(0)
    ELSE LET k == CHOOSE x \in S : TRUE
         IN  RAdd(smoothed_velocities[k].velocity, SumOver(S \ {k}))

\* C27: every rep of the bar-movement path has rep_type 'bar_movement', avg, max
\* and min velocity equal to the mean, the greatest and the least smoothed speed
\* of exactly the samples whose frame lies in [start_frame, end_frame] (so
\* min <= avg <= max), and tension_score = max(0, 100 - 50 * avg_velocity),
\* which lies within [0, 100].
C27_BarRepStatistics ==
    (DetectDone /\ call.exercise_type = "lat_pulldown" /\ velocities # << >>)
        => /\ result.tag = "returned"
           /\ \A r \in 1..Len(result.value) :
                LET rep == result.value[r]
                    S == SamplesWithin(rep)
                IN  /\ rep.rep_type = "bar_movement"
                    /\ S # {}
                    /\ rep.velocity_points = Cardinality(S)
                    /\ RMul(rep.avg_velocity, RInt(Cardinality(S))) = SumOver(S)
                    /\ \E k \in S : smoothed_velocities[k].velocity = rep.max_velocity
                    /\ \A k \in S : RLeq(smoothed_velocities[k].velocity, rep.max_velocity)
                    /\ \E k \in S : smoothed_velocities[k].velocity = rep.min_velocity
                    /\ \A k \in S : RLeq(rep.min_velocity, smoothed_velocities[k].velocity)
                    /\ RLeq(rep.min_velocity, rep.avg_velocity)
                    /\ RLeq(rep.avg_velocity, rep.max_velocity)
                    /\ rep.tension_score
                         = RMax(RInt(0), RSub(RInt(100), RMul(rep.avg_velocity, Rat(50, 1000))))
                    /\ RLeq(RInt(0), rep.tension_score)
                    /\ RLeq(rep.tension_score, RInt(100))

C27_RepOverSmoothedSpeeds ==
    /\ DetectDone /\ call.exercise_type = "lat_pulldown"
    /\ result.tag = "returned" /\ Len(result.value) = 1
    /\ smoothed_velocities # velocities
    /\ RLt(result.value[1].min_velocity, result.value[1].avg_velocity)
    /\ RLt(result.value[1].avg_velocity, result.value[1].max_velocity)
    /\ result.value[1].avg_velocity
         # Mean(Speeds(SubSeq(velocities, result.value[1].start_frame,
                                         result.value[1].end_frame)))

(***************************************************************************)
(* The threshold state machine: last_rep_end_time                          *)
(***************************************************************************)
\* The end_time of the most recently emitted rep, 0 before the first.
LastEmittedEnd == IF reps = << >> THEN 0 ELSE reps[Len(reps)].end_time

\* C29: last_rep_end_time is 0 until a rep is accepted and then the end_time of
\* the most recently accepted rep; closing a candidate that is discarded returns
\* the machine to resting and leaves last_rep_end_time as it was; while no rep
\* has been accepted a sample with timestamp < min_rest_duration opens no rep;
\* and an above-threshold sample met while resting opens a rep whenever
\* min_rest_duration has passed since the last accepted rep, whatever candidates
\* were discarded in between.
C29_LastRepEndTracksAcceptedReps ==
    /\ [](last_rep_end_time = LastEmittedEnd)
    /\ [][ AtSample =>
             /\ (in_rep /\ BelowThreshold(i) /\ reps' = reps)
                  => (~in_rep' /\ last_rep_end_time' = last_rep_end_time)
             /\ (~in_rep /\ reps = << >> /\ velocities[i].timestamp < min_rest_duration)
                  => ~in_rep'
             /\ (~in_rep /\ AboveThreshold(i)
                    /\ velocities[i].timestamp - LastEmittedEnd >= min_rest_duration)
                  => (in_rep' /\ rep_start_idx' = i) ]_vars

C29_StartSoonAfterDiscardedCandidate ==
    /\ pc = "core_loop" /\ in_rep
    /\ Len(candidates) = 1 /\ reps = << >>
    /\ min_rest_duration > 0
    /\ velocities[rep_start_idx].timestamp - velocities[candidates[1][2]].timestamp
         < min_rest_duration

(***************************************************************************)
(* Properties of the report of analyze_video                               *)
(***************************************************************************)
Recommends(report, text) ==
    \E k \in 1..Len(report.recommendations) : report.recommendations[k] = text
Praise == "Great form! Maintain this tempo and focus on progressive overload"
Corrective ==
    { "Slow down your repetitions - aim for 3-4 seconds per phase",
      "Focus on the eccentric (lowering) portion of the movement",
      "Increase time under tension - each rep should take at least 2-3 seconds",
      "Try to maintain consistent tempo across all reps" }

\* C30: in every report analyze_video returns, rep_count is the length of reps,
\* success is true exactly when rep_count >= 1, a success=false report has
\* tension_rating 0, the recommendations are not empty, and the 'Great form'
\* recommendation appears only without any corrective recommendation and with a
\* tension_rating of at least 60.
C30_ReportIsConsistent ==
    (AnalyzeDone /\ result.tag = "returned")
        => LET report == result.value
           IN  /\ report.rep_count = Len(report.reps)
               /\ report.success <=> report.rep_count >= 1
               /\ ~report.success => report.tension_rating = RInt(0)
               /\ report.recommendations # << >>
               /\ Recommends(report, Praise)
                    => /\ \A text \in Corrective : ~Recommends(report, text)
                       /\ RLeq(RInt(60), report.tension_rating)

C30_PraisedReport ==
    /\ AnalyzeDone /\ result.tag = "returned"
    /\ result.value.success /\ result.value.rep_count = 1
    /\ Recommends(result.value, Praise)
=============================================================================
